---- MODULE Spec2Model ----
(***************************************************************************)
(* State-machine model of the Apple Health ETL of runnersdash:             *)
(*   - AppleHealthExtraction (src/extractapplehealth.py): constructor,     *)
(*     extract_data, extract_workout_elements, extract_record_elements,    *)
(*     extract_childless_elements, dataframe_to_sql, add_newcols_to_table, *)
(*     check_results;                                                      *)
(*   - DatasetPrep.write_to_csv and the preparation run                    *)
(*     (src/preparedatasets.py).                                           *)
(* Strings that the code concatenates, splits or sorts are sequences of    *)
(* tokens; a table is a set of columns and a sequence of rows; a row is a  *)
(* dict (function from column name to value) with its index column.        *)
(***************************************************************************)
EXTENDS Integers, Sequences, FiniteSets, TLC

VARIABLES
    files,                  \* names of the .db files present in data/
    pc,                     \* position of the run
    raised,                 \* the exception that ended the run, or "none"
    append_to_existing_db,  \* self.append_to_existing_db
    append_ver,             \* self.append_ver
    append_from,            \* self.append_from: <<>> is None, <<d>> a datetime
    exclude,                \* self.exclude
    root,                   \* self.root: the parsed export.xml
    exportdate,             \* date of the ExportDate node of export.xml
    datestring,             \* self.datestring
    db_name,                \* self.db_name
    counter,                \* local counter of the renaming loop
    chunk_size,             \* chunk_size of the extract_*_elements calls
    max_vars,               \* SQLITE_MAX_VARIABLE_NUMBER of the SQLite build
    elements_to_extract,    \* tags extract_data has still to go through
    node_list,              \* node_list of the running extract_* call
    i,                      \* enumerate() index of the last node taken
    table_queue,            \* table_queue: sequence of [key, rows]
    existing_table_length,  \* existing_table_length of the running call
    num_nodes_by_elem,      \* self.num_nodes_by_elem
    table_error_count,      \* self.table_error_count
    db,                     \* tables of the database file db_name
    sql_log,                \* one entry per dataframe_to_sql call (its print)
    print_error_msgs,       \* discrepancies found by check_results
    call,                   \* argument and result of a library-style call
    csv_files               \* names passed to DataFrame.to_csv, in order

vars == <<files, pc, raised, append_to_existing_db, append_ver, append_from,
          exclude, exportdate, datestring, db_name, counter, chunk_size,
          max_vars, elements_to_extract, node_list, i, root,
          table_queue, existing_table_length, num_nodes_by_elem,
          table_error_count, db, sql_log, print_error_msgs, call, csv_files>>

ctor_vars == <<append_to_existing_db, append_ver, append_from, exclude, root,
               exportdate, datestring, db_name, counter, chunk_size, max_vars>>

loop_vars == <<node_list, i, table_queue, existing_table_length>>

store_vars == <<num_nodes_by_elem, table_error_count, db, sql_log>>

(***************************************************************************)
(* Bounds of the model.                                                    *)
(***************************************************************************)
MaxNodes == 2       \* Workout plus Record nodes of one export.xml
MaxChunk == 2       \* chunk_size ranges over 1..MaxChunk
MaxTags == 2        \* distinct top-level tags of one export.xml
MaxDate == 2        \* dates (export dates, startDate) range over 1..MaxDate
MaxCounter == 1     \* largest counter suffix among the files already in data/
MaxFiles == 2       \* .db files in data/ when a run starts
MaxCalls == 2       \* calls of write_to_csv on one DatasetPrep object outside __main__
MaxWords == 3       \* words of one column name
MaxDay == 15        \* the daily dates of an aggregate range over 0..MaxDay
MaxRows == 2        \* rows of one daily aggregate

(***************************************************************************)
(* Generic helpers.                                                        *)
(***************************************************************************)
RECURSIVE Flatten(_)
Flatten(ss) == IF ss = <<>> THEN <<>> ELSE Head(ss) \o Flatten(Tail(ss))

SeqsUpTo(S, n) == UNION {[1..k -> S] : k \in 0..n}

Min(a, b) == IF a < b THEN a ELSE b

\* dict | dict and dict.update(): the right operand wins
Merge(old, new) == new @@ old

EmptyDict == [k \in {} |-> 0]

(***************************************************************************)
(* File names. A name is the sequence of the code points of its            *)
(* characters, so that sorted() and slicing act on it as on the string.    *)
(***************************************************************************)
Dates == 1..MaxDate

Digit(n) == 48 + n

RECURSIVE Decimal(_)
\* "{}".format(counter)
Decimal(n) == IF n < 10 THEN <<Digit(n)>> ELSE Decimal(n \div 10) \o <<Digit(n % 10)>>

\* exportdatetime.strftime("%Y%m%d"): day d of the modelled month
DateStr(d) == <<50, 48, 50, 50, 48, 51>> \o (IF d < 10 THEN <<48>> ELSE <<>>) \o Decimal(d)

Applehealth == <<95, 97, 112, 112, 108, 101, 104, 101, 97, 108, 116, 104>>   \* "_applehealth"

VerSuffix == <<95, 118, 101, 114, 50, 46, 53>>                               \* "_ver2.5"

Extension == <<46, 100, 98>>                                                  \* ".db"

\* dbprefix = self.datestring + '_applehealth' + dbsuffix
DbPrefix(ds, ver) == ds \o Applehealth \o (IF ver THEN VerSuffix ELSE <<>>)

\* dbprefix + extension
BaseName(ds, ver) == DbPrefix(ds, ver) \o Extension

\* dbprefix + "_{}".format(counter) + extension
CountedName(ds, ver, k) == DbPrefix(ds, ver) \o <<95>> \o Decimal(k) \o Extension

RECURSIVE StrLess(_, _)
\* a < b for str (and for two PosixPath of one directory)
StrLess(a, b) ==
    IF b = <<>> THEN FALSE
    ELSE IF a = <<>> THEN TRUE
    ELSE IF Head(a) # Head(b) THEN Head(a) < Head(b)
    ELSE StrLess(Tail(a), Tail(b))

\* a variant of the choice of line 121 that takes the first of the sorted list
SortedFirst(fs) == CHOOSE f \in fs : \A g \in fs \ {f} : StrLess(f, g)

\* list(sorted(dbpath.glob("*.db")))[-1]
SortedLast(fs) == CHOOSE f \in fs : \A g \in fs \ {f} : StrLess(g, f)

\* str(self.db_name).split('/')[-1][:8]
First8(name) == SubSeq(name, 1, Min(8, Len(name)))

\* every name a run of the program can have left in data/
ProgramNames ==
    {BaseName(DateStr(d), v) : d \in Dates, v \in BOOLEAN}
        \cup {CountedName(DateStr(d), v, k) : d \in Dates, v \in BOOLEAN, k \in 1..MaxCounter}

(***************************************************************************)
(* The export tree. An Element is [tag, attrib, children]; attrib is a     *)
(* dict. The attribute "id" stands for the attributes that tell two nodes  *)
(* apart (creationDate, value, sourceName ...).                            *)
(***************************************************************************)
PREFIX_TO_STRIP ==
    [Record |-> <<"HKQuantityTypeIdentifier", "HKDataType", "HKCategoryTypeIdentifier">>,
     Workout |-> <<"HKWorkoutActivityType">>]

TYPE_COL == [Record |-> "type", Workout |-> "workoutActivityType"]

\* the strings of the model that start with a prefix, cut after it
PrefixSplit ==
    [HKQuantityTypeIdentifierStepCount |-> <<"HKQuantityTypeIdentifier", "StepCount">>,
     HKQuantityTypeIdentifierHeartRateVariabilitySDNN |-> <<"HKQuantityTypeIdentifier", "HeartRateVariabilitySDNN">>,
     HKCategoryTypeIdentifierSleepAnalysis |-> <<"HKCategoryTypeIdentifier", "SleepAnalysis">>,
     HKWorkoutActivityTypeRunning |-> <<"HKWorkoutActivityType", "Running">>,
     HKWorkoutActivityTypeWalking |-> <<"HKWorkoutActivityType", "Walking">>]

\* str.removeprefix
removeprefix(s, p) ==
    IF s \in DOMAIN PrefixSplit /\ PrefixSplit[s][1] = p THEN PrefixSplit[s][2] ELSE s

\* "HKMetadataKey" in s
ContainsHKMetadataKey(s) ==
    s \in {"HKMetadataKeySyncVersion", "HKMetadataKeySyncIdentifier", "HKMetadataKeyHeartRateMotionContext"}

Element(tag, attrib, children) == [tag |-> tag, attrib |-> attrib, children |-> children]

MetadataEntry(key) == Element("MetadataEntry", [key |-> key, value |-> "v"], <<>>)

FileReference == Element("FileReference", [path |-> "route.gpx"], <<>>)

WorkoutEvent == Element("WorkoutEvent", [type |-> "HKWorkoutEventTypePause"], <<>>)

WorkoutRoute(children) == Element("WorkoutRoute", [sourceName |-> "Watch"], children)

InstantaneousBeatsPerMinute(bpm) == Element("InstantaneousBeatsPerMinute", [bpm |-> bpm], <<>>)

HeartRateVariabilityMetadataList(children) ==
    Element("HeartRateVariabilityMetadataList", EmptyDict, children)

\* a child tag the code has no branch for (newer exports have it)
WorkoutStatistics == Element("WorkoutStatistics", [type |-> "HKQuantityTypeIdentifierHeartRate"], <<>>)

Workout(type, date, children) ==
    Element("Workout", [workoutActivityType |-> type, startDate |-> date], children)

Record(type, date, children) == Element("Record", [type |-> type, startDate |-> date], children)

ActivitySummary(date) == Element("ActivitySummary", [dateComponents |-> date], <<>>)

RECURSIVE Labelled(_, _)
\* the node with attribute id = path on it and on every descendant
Labelled(node, path) ==
    [tag |-> node.tag,
     attrib |-> Merge(node.attrib, [id |-> path]),
     children |-> [k \in DOMAIN node.children |-> Labelled(node.children[k], path \o <<k>>)]]

LabelledList(nodes, kind) == [k \in DOMAIN nodes |-> Labelled(nodes[k], <<kind, k>>)]

(***************************************************************************)
(* The database file and pandas. A table is [cols, rows]; a row (and a row *)
(* of a DataFrame) is [index, attrib]. A "store" is the record             *)
(* [db, table_error_count, sql_log, raised, num_nodes_by_elem,             *)
(*  table_queue, existing_table_length] that the statements of one call    *)
(* hand on to each other.                                                  *)
(***************************************************************************)
\* pd.DataFrame(list of dict): a RangeIndex from 0 and one row per dict
DataFrame(list) == [k \in DOMAIN list |-> [index |-> k - 1, attrib |-> list[k]]]

\* df.columns
Columns(df) == UNION {DOMAIN df[k].attrib : k \in DOMAIN df}

\* df.index = df.index + table_len
Reindexed(df, table_len) == [k \in DOMAIN df |-> [df[k] EXCEPT !.index = @ + table_len]]

\* SELECT count(*) FROM table_name, of a table that exists
TableLength(d, table_name) == Len(d[table_name].rows)

\* the bound parameters of the one INSERT that method='multi' issues
SqlVariables(df) == Len(df) * (Cardinality(Columns(df)) + 1)

\* df.to_sql(name, con, if_exists, method='multi') on database d: [db, err]
to_sql(d, df, name, if_exists) ==
    IF name \in DOMAIN d /\ if_exists = "fail"
    THEN [db |-> d, err |-> "ValueError"]
    ELSE LET created == IF name \in DOMAIN d /\ if_exists = "append"
                        THEN d
                        ELSE (name :> [cols |-> {"index"} \cup Columns(df), rows |-> <<>>]) @@ d
         IN  IF Len(df) = 0
             THEN [db |-> created, err |-> "none"]
             ELSE IF SqlVariables(df) > max_vars
             THEN [db |-> created, err |-> "too many SQL variables"]
             ELSE IF ~(Columns(df) \subseteq created[name].cols)
             THEN [db |-> created, err |-> "has no column"]
             ELSE [db |-> [created EXCEPT ![name].rows = @ \o df], err |-> "none"]

\* the column that SQLite adds for "ALTER TABLE {0} ADD COLUMN {1}".format(tbl, col):
\* the text of col is not quoted, so its first word is the name and the rest
\* is read as the type
AddedColumn(col) == IF col = "Modified Date" THEN "Modified" ELSE col

\* add_newcols_to_table(df, tbl): [db, err]
add_newcols_to_table(d, df, tbl) ==
    LET old_cols == d[tbl].cols \ {"index"}
        new_cols == Columns(df) \ old_cols
        altered == [d EXCEPT ![tbl].cols = @ \cup {AddedColumn(col) : col \in new_cols}]
    IN  IF \E added_col \in new_cols : added_col \notin altered[tbl].cols
        THEN [db |-> altered, err |-> "AssertionError"]
        ELSE to_sql(altered, df, tbl, "append")

\* the ids of the rows of a DataFrame, in order
Ids(df) == [k \in DOMAIN df |-> df[k].attrib.id]

\* dataframe_to_sql with the handler of lines 656-660 raising again
dataframe_to_sql_raising(st, df0, table_name, ifexists) ==
    LET counted == IF table_name \in DOMAIN st.table_error_count
                   THEN st.table_error_count
                   ELSE (table_name :> 0) @@ st.table_error_count
        logged == Append(st.sql_log, [table |-> table_name, ids |-> Ids(df0), err |-> "none"])
        failed(e) == [logged EXCEPT ![Len(logged)].err = e]
        reindex == append_to_existing_db /\ ifexists = "append"
    IN  IF reindex /\ table_name \notin DOMAIN st.db
        THEN \* SELECT count(*) raises "no such table": counted, neither branch taken
             [st EXCEPT !.table_error_count = [counted EXCEPT ![table_name] = @ + 1],
                        !.sql_log = failed("no such table")]
        ELSE LET df == IF reindex THEN Reindexed(df0, TableLength(st.db, table_name)) ELSE df0
                 w == to_sql(st.db, df, table_name, ifexists)
             IN  IF w.err = "none"
                 THEN [st EXCEPT !.db = w.db, !.table_error_count = counted, !.sql_log = logged]
                 ELSE IF w.err = "ValueError"
                 THEN [st EXCEPT !.table_error_count = counted, !.sql_log = failed(w.err),
                                 !.raised = "ValueError: table exists"]
                 ELSE IF w.err = "has no column"
                 THEN LET r == add_newcols_to_table(w.db, df, table_name)
                      IN  [st EXCEPT !.db = r.db,
                                     !.table_error_count = [counted EXCEPT ![table_name] = @ + 1],
                                     !.sql_log = failed(w.err),
                                     !.raised = IF r.err = "none" THEN "none"
                                                ELSE IF r.err = "AssertionError" THEN r.err
                                                ELSE "OperationalError"]
                 ELSE \* "too many SQL variables": logged, nothing written
                      [st EXCEPT !.db = w.db,
                                 !.table_error_count = [counted EXCEPT ![table_name] = @ + 1],
                                 !.sql_log = failed(w.err),
                                 !.raised = "OperationalError"]

\* dataframe_to_sql(df, table_name, ifexists), from store st: the store after it
dataframe_to_sql(st, df0, table_name, ifexists) ==
    LET counted == IF table_name \in DOMAIN st.table_error_count
                   THEN st.table_error_count
                   ELSE (table_name :> 0) @@ st.table_error_count
        logged == Append(st.sql_log, [table |-> table_name, ids |-> Ids(df0), err |-> "none"])
        failed(e) == [logged EXCEPT ![Len(logged)].err = e]
        reindex == append_to_existing_db /\ ifexists = "append"
    IN  IF reindex /\ table_name \notin DOMAIN st.db
        THEN \* SELECT count(*) raises "no such table": counted, neither branch taken
             [st EXCEPT !.table_error_count = [counted EXCEPT ![table_name] = @ + 1],
                        !.sql_log = failed("no such table")]
        ELSE LET df == IF reindex THEN Reindexed(df0, TableLength(st.db, table_name)) ELSE df0
                 w == to_sql(st.db, df, table_name, ifexists)
             IN  IF w.err = "none"
                 THEN [st EXCEPT !.db = w.db, !.table_error_count = counted, !.sql_log = logged]
                 ELSE IF w.err = "ValueError"
                 THEN [st EXCEPT !.table_error_count = counted, !.sql_log = failed(w.err),
                                 !.raised = "ValueError: table exists"]
                 ELSE IF w.err = "has no column"
                 THEN LET r == add_newcols_to_table(w.db, df, table_name)
                      IN  [st EXCEPT !.db = r.db,
                                     !.table_error_count = [counted EXCEPT ![table_name] = @ + 1],
                                     !.sql_log = failed(w.err),
                                     !.raised = IF r.err = "none" THEN "none"
                                                ELSE IF r.err = "AssertionError" THEN r.err
                                                ELSE "OperationalError"]
                 ELSE \* "too many SQL variables": logged, nothing written
                      [st EXCEPT !.db = w.db,
                                 !.table_error_count = [counted EXCEPT ![table_name] = @ + 1],
                                 !.sql_log = failed(w.err)]

\* get_current_table_length(table_name): <<n>>, or <<>> when the query raises
get_current_table_length(d, table_name) ==
    IF table_name \in DOMAIN d THEN <<TableLength(d, table_name)>> ELSE <<>>

(***************************************************************************)
(* table_queue: a dict in insertion order, as a sequence of [key, rows].   *)
(***************************************************************************)
QKeys(q) == {q[k].key : k \in DOMAIN q}

QPos(q, key) == CHOOSE k \in DOMAIN q : q[k].key = key

\* table_queue[key] = []
QInit(q, key) ==
    IF key \in QKeys(q) THEN [q EXCEPT ![QPos(q, key)].rows = <<>>]
    ELSE Append(q, [key |-> key, rows |-> <<>>])

\* table_queue[key].append(attrib)
QAppend(q, key, attrib) == [q EXCEPT ![QPos(q, key)].rows = Append(@, attrib)]

\* table_queue[key][-1].update(items)
QUpdateLast(q, key, items) == [q EXCEPT ![QPos(q, key)].rows[Len(q[QPos(q, key)].rows)] = Merge(@, items)]

QRows(q, key) == q[QPos(q, key)].rows

(***************************************************************************)
(* extract_workout_elements: one iteration of the node loop.               *)
(***************************************************************************)
RECURSIVE get_subtree_pre(_)
\* a traversal that yields a node before its children
get_subtree_pre(node) ==
    <<node>> \o Flatten([k \in DOMAIN node.children |-> get_subtree_pre(node.children[k])])

RECURSIVE get_subtree(_)
\* get_subtree(node): the nodes in the order the generator yields them
get_subtree(node) ==
    Flatten([k \in DOMAIN node.children |-> get_subtree(node.children[k])]) \o <<node>>

\* check_if_workout_route(metadata_node)
check_if_workout_route(metadata_node) == ContainsHKMetadataKey(metadata_node.attrib.key)

RECURSIVE FlushWorkoutQueue(_, _)
\* lines 281-285: every list of table_queue, from the k-th key on
FlushWorkoutQueue(st, k) ==
    IF k > Len(st.table_queue) THEN st
    ELSE LET w == dataframe_to_sql(st, DataFrame(st.table_queue[k].rows), st.table_queue[k].key, "append")
         IN  IF w.raised # "none" THEN w
             ELSE FlushWorkoutQueue([w EXCEPT !.table_queue[k].rows = <<>>], k + 1)

\* lines 290-291: the last prefix of the list is the one that counts
WorkoutNodeType(node) ==
    removeprefix(node.attrib[TYPE_COL.Workout], PREFIX_TO_STRIP.Workout[Len(PREFIX_TO_STRIP.Workout)])

\* lines 293-296 and 326-329 (452-455, 472-475): first occurrence of a key
InitKey(st, key) ==
    IF key \in QKeys(st.table_queue) THEN st
    ELSE [st EXCEPT !.table_queue = QInit(@, key),
                    !.num_nodes_by_elem = (key :> 0) @@ @]

\* lines 298-306 (457-465): queue the node, count it, give it its index
QueueNode(st, nodetype, node) ==
    LET queued == [st EXCEPT !.table_queue = QAppend(@, nodetype, node.attrib),
                             !.num_nodes_by_elem[nodetype] = @ + 1]
        known == nodetype \in DOMAIN st.existing_table_length
        len == get_current_table_length(st.db, nodetype)
    IN  IF ~append_to_existing_db \/ known THEN queued
        ELSE IF len = <<>> THEN [queued EXCEPT !.raised = "OperationalError: no such table"]
        ELSE [queued EXCEPT !.existing_table_length = (nodetype :> len[1]) @@ @]

\* node_index of lines 301-306 (460-465), after QueueNode
NodeIndex(st, nodetype) ==
    (st.num_nodes_by_elem[nodetype] - 1)
        + (IF append_to_existing_db THEN st.existing_table_length[nodetype] ELSE 0)

RECURSIVE RouteItems(_)
\* lines 349-366: the dict that the queued children of a WorkoutRoute add to it
RouteItems(workout_route_queue) ==
    IF workout_route_queue = <<>> THEN EmptyDict
    ELSE LET route_child == Head(workout_route_queue)
             items == IF route_child.tag = "FileReference"
                      THEN ("filePath" :> route_child.attrib.path)
                      ELSE (route_child.attrib.key :> route_child.attrib.value)
         IN  Merge(items, RouteItems(Tail(workout_route_queue)))

\* lines 313-372: one child of the subtree; c is [st, workout_route_queue]
WorkoutChild(c, child, nodetype, node_index) ==
    IF child.tag = "Workout" THEN c
    ELSE IF child.tag = "MetadataEntry"
    THEN IF check_if_workout_route(child)
         THEN [c EXCEPT !.workout_route_queue = Append(@, child)]
         ELSE [c EXCEPT !.st.table_queue =
                            QUpdateLast(@, nodetype, (child.attrib.key :> child.attrib.value))]
    ELSE IF child.tag = "FileReference"
    THEN [c EXCEPT !.workout_route_queue = Append(@, child)]
    ELSE IF child.tag \in {"WorkoutEvent", "WorkoutRoute"}
    THEN LET st1 == InitKey(c.st, child.tag)
             new_child_attrib == Merge(child.attrib, [workoutType |-> nodetype, workoutIndex |-> node_index])
             q1 == QUpdateLast(st1.table_queue, nodetype, (child.tag :> TRUE))
             q2 == QAppend(q1, child.tag, new_child_attrib)
             q3 == IF child.tag = "WorkoutRoute"
                   THEN QUpdateLast(q2, child.tag, RouteItems(c.workout_route_queue))
                   ELSE q2
         IN  [st |-> [st1 EXCEPT !.table_queue = q3, !.num_nodes_by_elem[child.tag] = @ + 1],
              workout_route_queue |-> IF child.tag = "WorkoutRoute" THEN <<>> ELSE c.workout_route_queue]
    ELSE [c EXCEPT !.st.raised = "ValueError"]

RECURSIVE WorkoutChildren(_, _, _, _)
\* the loop of line 311 over the nodes that get_subtree yields
WorkoutChildren(c, subtree, nodetype, node_index) ==
    IF subtree = <<>> \/ c.st.raised # "none" THEN c
    ELSE WorkoutChildren(WorkoutChild(c, Head(subtree), nodetype, node_index),
                         Tail(subtree), nodetype, node_index)

\* lines 277-375: the body of the loop for the idx-th node
WorkoutIteration(st, node, idx) ==
    LET flushed == IF idx % chunk_size = 0 THEN FlushWorkoutQueue(st, 1) ELSE st
        nodetype == WorkoutNodeType(node)
        queued == QueueNode(InitKey(flushed, nodetype), nodetype, node)
    IN  IF flushed.raised # "none" THEN flushed
        ELSE IF queued.raised # "none" THEN queued
        ELSE WorkoutChildren([st |-> queued, workout_route_queue |-> <<>>],
                             get_subtree(node), nodetype, NodeIndex(queued, nodetype)).st

(***************************************************************************)
(* extract_record_elements: one iteration of the node loop.                *)
(***************************************************************************)
bpm_type == "InstantaneousBeatsPerMinute"

RECURSIVE StripAll(_, _)
\* lines 447-449: every prefix in turn, each on the result of the one before
StripAll(s, prefixes) ==
    IF prefixes = <<>> THEN s ELSE StripAll(removeprefix(s, Head(prefixes)), Tail(prefixes))

RecordNodeType(node) == StripAll(node.attrib[TYPE_COL.Record], PREFIX_TO_STRIP.Record)

RECURSIVE FlushRecordQueue(_, _)
\* lines 437-442: every non-empty list of table_queue, from the k-th key on
FlushRecordQueue(st, k) ==
    IF k > Len(st.table_queue) THEN st
    ELSE IF st.table_queue[k].rows = <<>> THEN FlushRecordQueue(st, k + 1)
    ELSE LET w == dataframe_to_sql(st, DataFrame(st.table_queue[k].rows), st.table_queue[k].key, "append")
         IN  IF w.raised # "none" THEN w
             ELSE FlushRecordQueue([w EXCEPT !.table_queue[k].rows = <<>>], k + 1)

\* a variant of the loop body of lines 468-491 that passes over every child
RecordChildPassing(st, child, nodetype, node_index) == st

\* lines 468-491: one child of the subtree
RecordChild(st, child, nodetype, node_index) ==
    IF child.tag = "MetadataEntry"
    THEN [st EXCEPT !.table_queue = QUpdateLast(@, nodetype, (child.attrib.key :> child.attrib.value))]
    ELSE IF child.tag = bpm_type
    THEN LET st1 == InitKey(st, child.tag)
             bpm_node_attrib == Merge(child.attrib, [recordType |-> nodetype, recordIndex |-> node_index])
         IN  [st1 EXCEPT !.table_queue = QAppend(@, child.tag, bpm_node_attrib),
                         !.num_nodes_by_elem[child.tag] = @ + 1]
    ELSE IF child.tag \in {"HeartRateVariabilityMetadataList", "Record"} THEN st
    ELSE [st EXCEPT !.raised = "ValueError"]

RECURSIVE RecordChildren(_, _, _, _)
\* the loop of line 467 over the nodes that get_subtree yields
RecordChildren(st, subtree, nodetype, node_index) ==
    IF subtree = <<>> \/ st.raised # "none" THEN st
    ELSE RecordChildren(RecordChild(st, Head(subtree), nodetype, node_index),
                        Tail(subtree), nodetype, node_index)

\* lines 495-500: the InstantaneousBeatsPerMinute list, once it is chunk_size long
FlushBpm(st) ==
    IF bpm_type \in QKeys(st.table_queue) /\ Len(QRows(st.table_queue, bpm_type)) >= chunk_size
    THEN LET w == dataframe_to_sql(st, DataFrame(QRows(st.table_queue, bpm_type)), bpm_type, "append")
         IN  IF w.raised # "none" THEN w ELSE [w EXCEPT !.table_queue = QInit(@, bpm_type)]
    ELSE st

\* lines 434-500: the body of the loop for the idx-th node
RecordIteration(st, node, idx) ==
    LET flushed == IF idx % chunk_size = 0 THEN FlushRecordQueue(st, 1) ELSE st
        nodetype == RecordNodeType(node)
        queued == QueueNode(InitKey(flushed, nodetype), nodetype, node)
        walked == RecordChildren(queued, get_subtree(node), nodetype, NodeIndex(queued, nodetype))
    IN  IF flushed.raised # "none" THEN flushed
        ELSE IF queued.raised # "none" THEN queued
        ELSE IF walked.raised # "none" THEN walked
        ELSE FlushBpm(walked)

\* lines 378-384 and 503-510: one iteration of the loop that empties table_queue
DrainIteration(st) ==
    LET e == Head(st.table_queue)
        w == IF e.rows # <<>> THEN dataframe_to_sql(st, DataFrame(e.rows), e.key, "append") ELSE st
    IN  IF w.raised # "none" THEN w ELSE [w EXCEPT !.table_queue = Tail(@)]

(***************************************************************************)
(* Node lists cut at a date.                                               *)
(***************************************************************************)
\* list[k] for a negative k of Python: <<x>>, or <<>> for IndexError
AtNegative(list, k) == IF -k \in 1..Len(list) THEN <<list[Len(list) + k + 1]>> ELSE <<>>

\* list[k:] for any integer k
SliceFrom(list, k) ==
    LET from == IF k < 0 THEN (IF Len(list) + k < 0 THEN 0 ELSE Len(list) + k) ELSE k
    IN  SubSeq(list, from + 1, Len(list))

RECURSIVE ScanBack(_, _, _, _)
\* the while loops of lines 203-206 and 563-565: the final start index,
\* or <<>> when the index runs off the front of the list (IndexError)
ScanBack(list, datecol, date_start, start_idx) ==
    LET cur == AtNegative(list, start_idx)
    IN  IF cur = <<>> THEN <<>>
        ELSE IF cur[1].attrib[datecol] >= date_start
        THEN ScanBack(list, datecol, date_start, start_idx - 1)
        ELSE <<start_idx>>

\* get_nodes_after_datetime(date_start, full_node_list): <<list>>, or <<>> for IndexError
get_nodes_after_datetime(date_start, full_node_list) ==
    LET start_idx == ScanBack(full_node_list, "startDate", date_start, 0 - 1)
    IN  IF start_idx = <<>> THEN <<>> ELSE <<SliceFrom(full_node_list, start_idx[1] + 1)>>

\* lines 428-432: the Record nodes with startDate >= start_from, in file order
RECURSIVE RecordsAfter(_, _)
RecordsAfter(start_from, list) ==
    IF list = <<>> THEN <<>>
    ELSE (IF Head(list).attrib.startDate >= start_from THEN <<Head(list)>> ELSE <<>>)
             \o RecordsAfter(start_from, Tail(list))

(***************************************************************************)
(* The inputs of a run: export trees, databases left by earlier runs.      *)
(***************************************************************************)
\* a child tag under a Record that the code has no branch for
NewChildTag == Element("NewChildTag", EmptyDict, <<>>)

\* Workout nodes of a tree read in non-append mode (startDate is not looked at)
WorkoutShapes ==
    { Workout("HKWorkoutActivityTypeRunning", 1, <<>>),
      Workout("HKWorkoutActivityTypeRunning", 1, <<MetadataEntry("HKTimeZone"), WorkoutEvent>>),
      Workout("HKWorkoutActivityTypeWalking", 1,
              <<WorkoutRoute(<<MetadataEntry("HKMetadataKeySyncVersion"), FileReference>>)>>),
      Workout("HKWorkoutActivityTypeRunning", 1, <<WorkoutEvent, WorkoutStatistics>>) }

\* Record nodes of a tree read in non-append mode
RecordShapes ==
    { Record("HKQuantityTypeIdentifierStepCount", 1, <<>>),
      Record("HKQuantityTypeIdentifierStepCount", 1, <<MetadataEntry("HKMetadataKeyHeartRateMotionContext")>>),
      Record("HKQuantityTypeIdentifierHeartRateVariabilitySDNN", 1,
             <<HeartRateVariabilityMetadataList(
                   <<InstantaneousBeatsPerMinute(60), InstantaneousBeatsPerMinute(61)>>)>>),
      Record("HKQuantityTypeIdentifierStepCount", 1, <<MetadataEntry("Modified Date")>>),
      Record("HKQuantityTypeIdentifierStepCount", 1, <<NewChildTag>>) }

\* Workout nodes of a tree read in append mode
DatedWorkoutShapes ==
    UNION { { Workout("HKWorkoutActivityTypeRunning", d, <<>>),
              Workout("HKWorkoutActivityTypeRunning", d, <<WorkoutEvent>>),
              Workout("HKWorkoutActivityTypeWalking", d, <<>>) } : d \in Dates }

\* Record nodes of a tree read in append mode
DatedRecordShapes ==
    UNION { { Record("HKQuantityTypeIdentifierStepCount", d, <<>>),
              Record("HKCategoryTypeIdentifierSleepAnalysis", d, <<>>) } : d \in Dates }

\* the file lists Workout and ActivitySummary nodes by ascending date
Ascending(list, datecol) ==
    \A k \in 1..(Len(list) - 1) : list[k].attrib[datecol] <= list[k + 1].attrib[datecol]

StrictlyAscending(list, datecol) ==
    \A k \in 1..(Len(list) - 1) : list[k].attrib[datecol] < list[k + 1].attrib[datecol]

TopLevelTags == {"ExportDate", "Me", "ActivitySummary", "Workout", "Record", "Correlation"}

TagSets == {S \in SUBSET TopLevelTags : "ExportDate" \in S /\ Cardinality(S) <= MaxTags}

\* how many nodes a tree has under a tag of S: none when the tag is absent
Counts(S, tag) == IF tag \in S THEN 1..MaxNodes ELSE {0}

\* the trees of the model with top-level tags S and nw Workout, nr Record and
\* na ActivitySummary nodes; dated: whether startDate and dateComponents vary
TreesWith(S, nw, nr, na, dated) ==
    LET WS == IF dated THEN DatedWorkoutShapes ELSE WorkoutShapes
        RS == IF dated THEN DatedRecordShapes ELSE RecordShapes
        AS == IF dated THEN {ActivitySummary(d) : d \in Dates} ELSE {ActivitySummary(1)}
    IN  { [tags |-> S,
           Workout |-> LabelledList(w, "Workout"),
           Record |-> LabelledList(r, "Record"),
           ActivitySummary |-> LabelledList(a, "ActivitySummary")] :
              w \in {l \in [1..nw -> WS] : Ascending(l, "startDate")},
              r \in [1..nr -> RS],
              a \in {l \in [1..na -> AS] : StrictlyAscending(l, "dateComponents")} }

Trees(dated) ==
    UNION { UNION { TreesWith(S, n[1], n[2], n[3], dated) :
                      n \in {m \in Counts(S, "Workout") \X Counts(S, "Record")
                                      \X Counts(S, "ActivitySummary") :
                                 m[1] + m[2] + m[3] <= MaxNodes} } : S \in TagSets }

\* root.findall('./tag')
findall(tree, date, tag) ==
    IF tag \in {"Workout", "Record", "ActivitySummary"} THEN tree[tag]
    ELSE IF tag \notin tree.tags THEN <<>>
    ELSE IF tag = "ExportDate" THEN <<Element("ExportDate", [value |-> date, id |-> <<"ExportDate", date>>], <<>>)>>
    ELSE <<Element(tag, [id |-> <<tag, 1>>], <<>>)>>

\* a table as an earlier run left it: the rows, with index 0, 1, ...
StoredTable(list) == [cols |-> {"index"} \cup Columns(DataFrame(list)), rows |-> DataFrame(list)]

\* the database of an earlier run whose last export was made at date a
OldDatabase(a) ==
    [ExportDate |-> StoredTable(<<[value |-> a, id |-> <<"ExportDate", a>>]>>),
     Me |-> StoredTable(<<[id |-> <<"Me", 1>>]>>),
     ActivitySummary |-> StoredTable([d \in 1..a |-> [dateComponents |-> d, id |-> <<"ActivitySummary", d>>]]),
     Running |-> StoredTable(<<[workoutActivityType |-> "HKWorkoutActivityTypeRunning",
                                startDate |-> 1, id |-> <<"Workout", 0>>]>>),
     StepCount |-> StoredTable(<<[type |-> "HKQuantityTypeIdentifierStepCount",
                                  startDate |-> 1, id |-> <<"Record", 0>>]>>)]

(***************************************************************************)
(* extract_childless_elements, check_results and the tag lists.            *)
(***************************************************************************)
RECURSIVE TagsOf(_)
\* [child.tag for child in node.iter()], as a set
TagsOf(node) == {node.tag} \cup UNION {TagsOf(node.children[k]) : k \in DOMAIN node.children}

\* get_unique_tags(): the tags of all nodes of the tree, less exclude
get_unique_tags(tree, excl) ==
    ({"HealthData"} \cup tree.tags
        \cup UNION {TagsOf(tree.Workout[k]) : k \in DOMAIN tree.Workout}
        \cup UNION {TagsOf(tree.Record[k]) : k \in DOMAIN tree.Record}) \ excl

\* get_top_level_tags(): those of them that a child of the root has
get_top_level_tags(tree, excl) == {t \in get_unique_tags(tree, excl) : t \in tree.tags}

Attribs(list) == [k \in DOMAIN list |-> list[k].attrib]

\* extract_childless_elements with if_exists = 'append' for Me as well
extract_childless_elements_append(st, tag, start_from) ==
    LET table_name == tag
        st1 == IF table_name \in DOMAIN st.num_nodes_by_elem THEN st
               ELSE [st EXCEPT !.num_nodes_by_elem = (table_name :> 0) @@ @]
        all == findall(root, exportdate, tag)
        appending == start_from # <<>>
        start == IF appending /\ tag = "ActivitySummary"
                 THEN ScanBack(all, "dateComponents", start_from[1], 0 - 1)
                 ELSE <<0 - 1>>
    IN  IF appending /\ tag \notin {"Me", "ExportDate", "ActivitySummary"}
        THEN [st1 EXCEPT !.raised = "ValueError"]
        ELSE IF start = <<>>
        THEN [st1 EXCEPT !.raised = "IndexError"]
        ELSE LET list == IF appending /\ tag = "ActivitySummary" THEN SliceFrom(all, start[1] + 1) ELSE all
                 if_exists == IF ~appending THEN "fail" ELSE "append"
                 w == dataframe_to_sql(st1, DataFrame(Attribs(list)), table_name, if_exists)
             IN  IF w.raised # "none" THEN w
                 ELSE IF list = <<>> THEN [w EXCEPT !.raised = "UnboundLocalError"]
                 ELSE [w EXCEPT !.num_nodes_by_elem[table_name] = Len(list)]

\* extract_childless_elements(tag, start_from): the store after it
extract_childless_elements(st, tag, start_from) ==
    LET table_name == tag
        st1 == IF table_name \in DOMAIN st.num_nodes_by_elem THEN st
               ELSE [st EXCEPT !.num_nodes_by_elem = (table_name :> 0) @@ @]
        all == findall(root, exportdate, tag)
        appending == start_from # <<>>
        start == IF appending /\ tag = "ActivitySummary"
                 THEN ScanBack(all, "dateComponents", start_from[1], 0 - 1)
                 ELSE <<0 - 1>>
    IN  IF appending /\ tag \notin {"Me", "ExportDate", "ActivitySummary"}
        THEN [st1 EXCEPT !.raised = "ValueError"]
        ELSE IF start = <<>>
        THEN [st1 EXCEPT !.raised = "IndexError"]
        ELSE LET list == IF appending /\ tag = "ActivitySummary" THEN SliceFrom(all, start[1] + 1) ELSE all
                 if_exists == IF ~appending THEN "fail" ELSE IF tag = "Me" THEN "replace" ELSE "append"
                 w == dataframe_to_sql(st1, DataFrame(Attribs(list)), table_name, if_exists)
             IN  IF w.raised # "none" THEN w
                 ELSE IF list = <<>> THEN [w EXCEPT !.raised = "UnboundLocalError"]
                 ELSE [w EXCEPT !.num_nodes_by_elem[table_name] = Len(list)]

\* check_results(): the messages it collects, or <<>> when a count query raises
check_results(d, num) ==
    IF ~(DOMAIN num \subseteq DOMAIN d) THEN <<>>
    ELSE << (IF Cardinality(DOMAIN d) # Cardinality(DOMAIN num) THEN {<<"total_count_msg">>} ELSE {})
            \cup (IF (DOMAIN d \ DOMAIN num) \cup (DOMAIN num \ DOMAIN d) # {}
                  THEN {<<"list_fail_msg">>} ELSE {})
            \cup {<<"count_msg", tb>> : tb \in {t \in DOMAIN num : Len(d[t].rows) # num[t]}} >>

(***************************************************************************)
(* The run: AppleHealthExtraction(...) and then extract_data().            *)
(***************************************************************************)
\* SQLITE_MAX_VARIABLE_NUMBER of the builds of the model: one that a chunk of
\* the model can exceed, and the historical default, which none can
VarLimits == {6, 999}

\* the exclude arguments of the model: that of __main__, the tag that the
\* message of line 370 asks for, and a tag that only descendants have
ExcludeSets == {{"Correlation", "Audiogram"}, {"Workout"}, {"WorkoutEvent"}}

Store ==
    [db |-> db, table_error_count |-> table_error_count, sql_log |-> sql_log,
     raised |-> raised, num_nodes_by_elem |-> num_nodes_by_elem,
     table_queue |-> table_queue, existing_table_length |-> existing_table_length]

\* a store whose exception rolls back the writes of the step
CommitOrRollback(st) ==
    /\ db' = IF st.raised # "none" THEN db ELSE st.db
    /\ table_error_count' = st.table_error_count
    /\ sql_log' = st.sql_log
    /\ raised' = st.raised
    /\ num_nodes_by_elem' = st.num_nodes_by_elem
    /\ table_queue' = st.table_queue
    /\ existing_table_length' = st.existing_table_length
    /\ files' = IF Len(st.sql_log) > Len(sql_log) THEN files \cup {db_name} ELSE files

\* the store st becomes the state; sqlite creates the file on the first connect
Commit(st) ==
    /\ db' = st.db
    /\ table_error_count' = st.table_error_count
    /\ sql_log' = st.sql_log
    /\ raised' = st.raised
    /\ num_nodes_by_elem' = st.num_nodes_by_elem
    /\ table_queue' = st.table_queue
    /\ existing_table_length' = st.existing_table_length
    /\ files' = IF Len(st.sql_log) > Len(sql_log) THEN files \cup {db_name} ELSE files

Idle ==
    /\ pc = "new"
    /\ raised = "none"
    /\ append_to_existing_db = FALSE
    /\ append_ver = FALSE
    /\ append_from = <<>>
    /\ exclude = {}
    /\ root = [tags |-> {}, Workout |-> <<>>, Record |-> <<>>, ActivitySummary |-> <<>>]
    /\ exportdate = 1
    /\ datestring = <<>>
    /\ db_name = <<>>
    /\ counter = 0
    /\ chunk_size = 1
    /\ max_vars = 999
    /\ elements_to_extract = {}
    /\ node_list = <<>>
    /\ i = 0
    /\ table_queue = <<>>
    /\ existing_table_length = EmptyDict
    /\ num_nodes_by_elem = EmptyDict
    /\ table_error_count = EmptyDict
    /\ db = EmptyDict
    /\ sql_log = <<>>
    /\ print_error_msgs = {}
    /\ call = <<>>
    /\ csv_files = <<>>

\* lines 76-110: __init__ keeps its arguments, parses the file, reads ExportDate
ConstructWith(appends, vers, excludes, dates, chunks, limits, plain, dated) ==
    /\ pc = "new"
    /\ \E a \in appends, v \in vers, e \in excludes, d \in dates, c \in chunks, m \in limits :
          /\ append_to_existing_db' = a
          /\ append_ver' = v
          /\ exclude' = e
          /\ exportdate' = d
          /\ datestring' = DateStr(d)
          /\ chunk_size' = c
          /\ max_vars' = m
          /\ \E t \in (IF a /\ files # {} THEN dated ELSE plain) : root' = t
    /\ pc' = "name"
    /\ UNCHANGED <<files, raised, append_from, db_name, counter, elements_to_extract, loop_vars,
                   store_vars, print_error_msgs, call, csv_files>>

\* lines 112-139: the file to append to, or the name of a new file
ChooseName ==
    /\ pc = "name"
    /\ IF append_to_existing_db /\ files # {}
       THEN /\ db_name' = SortedLast(files)
            /\ datestring' = First8(SortedLast(files))
            /\ pc' = "engine"
            /\ UNCHANGED <<append_to_existing_db, counter>>
       ELSE /\ append_to_existing_db' = FALSE
            /\ db_name' = BaseName(datestring, append_ver)
            /\ counter' = IF BaseName(datestring, append_ver) \in files THEN 1 ELSE 0
            /\ pc' = IF BaseName(datestring, append_ver) \in files THEN "rename" ELSE "engine"
            /\ UNCHANGED datestring
    /\ UNCHANGED <<files, raised, append_ver, append_from, exclude, root, exportdate, chunk_size,
                   max_vars, elements_to_extract, loop_vars, store_vars, print_error_msgs,
                   call, csv_files>>

\* a variant of lines 141-144 with "if" for "while": one renaming, never a second
RenameOnce ==
    /\ pc = "rename"
    /\ db_name' = CountedName(datestring, append_ver, counter)
    /\ counter' = counter + 1
    /\ pc' = "engine"
    /\ UNCHANGED <<files, raised, append_to_existing_db, append_ver, append_from, exclude, root,
                   exportdate, datestring, chunk_size, max_vars, elements_to_extract,
                   loop_vars, store_vars, print_error_msgs, call, csv_files>>

\* lines 141-144: one test of the while condition, and the body when it holds
RenameLoop ==
    /\ pc = "rename"
    /\ IF db_name \in files
       THEN /\ db_name' = CountedName(datestring, append_ver, counter)
            /\ counter' = counter + 1
            /\ pc' = pc
       ELSE /\ pc' = "engine"
            /\ UNCHANGED <<db_name, counter>>
    /\ UNCHANGED <<files, raised, append_to_existing_db, append_ver, append_from, exclude, root,
                   exportdate, datestring, chunk_size, max_vars, elements_to_extract,
                   loop_vars, store_vars, print_error_msgs, call, csv_files>>

\* lines 146-154: the engine, and append_from from the last row of ExportDate
CreateEngine ==
    /\ pc = "engine"
    /\ IF append_to_existing_db
       THEN \E a \in Dates :
               /\ db' = OldDatabase(a)
               /\ append_from' = <<db'.ExportDate.rows[Len(db'.ExportDate.rows)].attrib.value>>
       ELSE UNCHANGED <<db, append_from>>
    /\ pc' = "constructed"
    /\ UNCHANGED <<files, raised, append_to_existing_db, append_ver, exclude, root, exportdate,
                   datestring, db_name, counter, chunk_size, max_vars, elements_to_extract,
                   loop_vars, num_nodes_by_elem, table_error_count, sql_log,
                   print_error_msgs, call, csv_files>>

\* line 672: extract_data() computes the elements to extract
ExtractData ==
    /\ pc = "constructed"
    /\ elements_to_extract' = get_top_level_tags(root, exclude) \ exclude
    /\ pc' = "extract"
    /\ UNCHANGED <<files, raised, ctor_vars, loop_vars, store_vars, print_error_msgs, call, csv_files>>

\* the locals of an extract_*_elements call, when it starts and after it returns
NoLocals ==
    /\ node_list' = <<>>
    /\ i' = 0
    /\ table_queue' = <<>>
    /\ existing_table_length' = EmptyDict

\* lines 683-684 and 263-275: extract_workout_elements is called and builds node_list
ExtractWorkouts ==
    /\ pc = "extract"
    /\ "Workout" \in elements_to_extract
    /\ elements_to_extract' = elements_to_extract \ {"Workout"}
    /\ LET found == IF append_from = <<>> THEN <<findall(root, exportdate, "Workout")>>
                    ELSE get_nodes_after_datetime(append_from[1], findall(root, exportdate, "Workout"))
       IN  IF found = <<>>
           THEN /\ raised' = "IndexError"
                /\ pc' = "aborted"
                /\ UNCHANGED loop_vars
           ELSE /\ node_list' = found[1]
                /\ pc' = IF found[1] = <<>> THEN "extract" ELSE "workout_loop"
                /\ UNCHANGED <<raised, i, table_queue, existing_table_length>>
    /\ UNCHANGED <<files, ctor_vars, store_vars, print_error_msgs, call, csv_files>>

\* lines 685-686 and 414-432: extract_record_elements is called and builds node_list
ExtractRecords ==
    /\ pc = "extract"
    /\ "Record" \in elements_to_extract
    /\ elements_to_extract' = elements_to_extract \ {"Record"}
    /\ node_list' = IF append_from = <<>> THEN findall(root, exportdate, "Record")
                    ELSE RecordsAfter(append_from[1], findall(root, exportdate, "Record"))
    /\ pc' = IF node_list' = <<>> THEN "extract" ELSE "record_loop"
    /\ UNCHANGED <<files, raised, ctor_vars, i, table_queue, existing_table_length, store_vars,
                   print_error_msgs, call, csv_files>>

\* lines 277-375: one iteration of the loop over the Workout nodes
WorkoutLoop ==
    /\ pc = "workout_loop"
    /\ i < Len(node_list)
    /\ LET st == WorkoutIteration(Store, node_list[i + 1], i + 1)
       IN  /\ Commit(st)
           /\ pc' = IF st.raised # "none" THEN "aborted"
                    ELSE IF i + 1 = Len(node_list) THEN "workout_drain" ELSE pc
    /\ i' = i + 1
    /\ UNCHANGED <<ctor_vars, elements_to_extract, node_list, print_error_msgs, call, csv_files>>

\* lines 434-500: one iteration of the loop over the Record nodes
RecordLoop ==
    /\ pc = "record_loop"
    /\ i < Len(node_list)
    /\ LET st == RecordIteration(Store, node_list[i + 1], i + 1)
       IN  /\ Commit(st)
           /\ pc' = IF st.raised # "none" THEN "aborted"
                    ELSE IF i + 1 = Len(node_list) THEN "record_drain" ELSE pc
    /\ i' = i + 1
    /\ UNCHANGED <<ctor_vars, elements_to_extract, node_list, print_error_msgs, call, csv_files>>

\* one test of "while table_queue", with the body or with the return of the call
Drain(at) ==
    /\ pc = at
    /\ IF table_queue # <<>>
       THEN LET st == DrainIteration(Store)
            IN  /\ Commit(st)
                /\ pc' = IF st.raised # "none" THEN "aborted" ELSE pc
                /\ UNCHANGED <<node_list, i>>
       ELSE /\ pc' = "extract"
            /\ NoLocals
            /\ UNCHANGED <<files, raised, store_vars>>
    /\ UNCHANGED <<ctor_vars, elements_to_extract, print_error_msgs, call, csv_files>>

\* lines 378-387
WorkoutDrain == Drain("workout_drain")

\* lines 503-513
RecordDrain == Drain("record_drain")

\* lines 687-688
SkipElement ==
    /\ pc = "extract"
    /\ \E elem \in elements_to_extract \cap {"Correlation", "Audiogram", "ClinicalRecord"} :
          elements_to_extract' = elements_to_extract \ {elem}
    /\ UNCHANGED <<files, pc, raised, ctor_vars, loop_vars, store_vars, print_error_msgs, call, csv_files>>

\* lines 689-690: extract_childless_elements(elem, start_from=from_datetime)
ExtractChildless ==
    /\ pc = "extract"
    /\ \E elem \in elements_to_extract \ {"Workout", "Record", "Correlation", "Audiogram", "ClinicalRecord"} :
          /\ elements_to_extract' = elements_to_extract \ {elem}
          /\ LET st == extract_childless_elements(Store, elem, append_from)
             IN  /\ Commit(st)
                 /\ pc' = IF st.raised # "none" THEN "aborted" ELSE pc
    /\ UNCHANGED <<ctor_vars, node_list, i, print_error_msgs, call, csv_files>>

\* lines 692-699: log_results(), and check_results() unless appending
FinishExtract ==
    /\ pc = "extract"
    /\ elements_to_extract = {}
    /\ IF append_to_existing_db
       THEN /\ pc' = "done"
            /\ UNCHANGED <<files, raised, print_error_msgs>>
       ELSE LET msgs == check_results(db, num_nodes_by_elem)
            IN  /\ files' = files \cup {db_name}
                /\ raised' = IF msgs = <<>> THEN "OperationalError: no such table" ELSE raised
                /\ pc' = IF msgs = <<>> THEN "aborted" ELSE "checked"
                /\ print_error_msgs' = IF msgs = <<>> THEN {} ELSE msgs[1]
    /\ UNCHANGED <<ctor_vars, elements_to_extract, loop_vars, store_vars, call, csv_files>>

(***************************************************************************)
(* Spec: extraction runs that write a new database file.                   *)
(***************************************************************************)
\* the file that an earlier run on the same export has left
SameDayFile == BaseName(DateStr(MaxDate), FALSE)

\* lines 76-110, for a run that finds no file to append to or is not asked to
Construct ==
    /\ ConstructWith(IF files = {} THEN BOOLEAN ELSE {FALSE}, {FALSE}, ExcludeSets, {MaxDate},
                     1..MaxChunk, VarLimits, Trees(FALSE), {})

Init ==
    /\ Idle
    /\ files \in {{}, {SameDayFile}}

Next ==
    \/ Construct
    \/ ChooseName
    \/ RenameLoop
    \/ CreateEngine
    \/ ExtractData
    \/ ExtractWorkouts
    \/ ExtractRecords
    \/ WorkoutLoop
    \/ RecordLoop
    \/ WorkoutDrain
    \/ RecordDrain
    \/ SkipElement
    \/ ExtractChildless
    \/ FinishExtract

Spec == Init /\ [][Next]_vars

(***************************************************************************)
(* SpecAppend: extraction runs that append to the database of an earlier   *)
(* run.                                                                    *)
(***************************************************************************)
\* lines 76-110, for a run asked to append that finds a file
ConstructAppend ==
    ConstructWith({TRUE}, {FALSE}, {{"Correlation", "Audiogram"}}, {MaxDate},
                  1..MaxChunk, {999}, {}, Trees(TRUE))

InitAppend ==
    /\ Idle
    /\ files = {BaseName(DateStr(1), FALSE)}

NextAppend ==
    \/ ConstructAppend
    \/ ChooseName
    \/ CreateEngine
    \/ ExtractData
    \/ ExtractWorkouts
    \/ ExtractRecords
    \/ WorkoutLoop
    \/ RecordLoop
    \/ WorkoutDrain
    \/ RecordDrain
    \/ ExtractChildless
    \/ FinishExtract

SpecAppend == InitAppend /\ [][NextAppend]_vars

(***************************************************************************)
(* SpecCtor: runs on small exports, from every content of data/.           *)
(***************************************************************************)
\* exports with nothing but ExportDate and Me
CtorTrees ==
    {[tags |-> {"ExportDate", "Me"}, Workout |-> <<>>, Record |-> <<>>, ActivitySummary |-> <<>>]}

\* lines 76-110, for every append_to_existing_db, append_ver and export date
ConstructAny ==
    ConstructWith(BOOLEAN, BOOLEAN, {{"Correlation", "Audiogram"}}, Dates, {1}, {999},
                  CtorTrees, CtorTrees)

InitCtor ==
    /\ Idle
    /\ files \in {fs \in SUBSET ProgramNames : Cardinality(fs) <= MaxFiles}

NextCtor ==
    \/ ConstructAny
    \/ ChooseName
    \/ RenameLoop
    \/ CreateEngine
    \/ ExtractData
    \/ ExtractChildless
    \/ FinishExtract

SpecCtor == InitCtor /\ [][NextCtor]_vars

(***************************************************************************)
(* SpecNodes: calls of get_nodes_after_datetime.                           *)
(***************************************************************************)
\* the dates to cut at: those of the nodes, one before and one after them
CutDates == 0..(MaxDate + 1)

\* non-empty lists of Workout nodes in ascending order of startDate
SortedNodeLists ==
    {LabelledList(l, "Workout") :
        l \in {m \in SeqsUpTo(DatedWorkoutShapes, MaxNodes) : m # <<>> /\ Ascending(m, "startDate")}}

\* line 275: get_nodes_after_datetime(start_from, node_list) is called
CallNodesAfter ==
    /\ pc = "new"
    /\ call = <<>>
    /\ \E d \in CutDates, l \in SortedNodeLists :
          call' = <<[date_start |-> d, full_node_list |-> l, status |-> "called", result |-> <<>>]>>
    /\ UNCHANGED <<files, pc, raised, ctor_vars, elements_to_extract, loop_vars, store_vars,
                   print_error_msgs, csv_files>>

\* lines 199-208: it returns, or raises IndexError
ReturnNodesAfter ==
    /\ call # <<>>
    /\ call[1].status = "called"
    /\ LET found == get_nodes_after_datetime(call[1].date_start, call[1].full_node_list)
       IN  call' = IF found = <<>>
                   THEN [call EXCEPT ![1].status = "IndexError"]
                   ELSE [call EXCEPT ![1].status = "returned", ![1].result = found[1]]
    /\ UNCHANGED <<files, pc, raised, ctor_vars, elements_to_extract, loop_vars, store_vars,
                   print_error_msgs, csv_files>>

NextNodes ==
    \/ CallNodesAfter
    \/ ReturnNodesAfter

InitNodes ==
    /\ Idle
    /\ files = {}

SpecNodes == InitNodes /\ [][NextNodes]_vars

(***************************************************************************)
(* SpecPrep: preparedatasets.py. A CSV file name is [date, rest]: the      *)
(* export date of the name of the database, and what follows                *)
(* "{PD_OUTPUT_PATH}/{DB_EXPORT_DATE}_" as the sequence of the strings that *)
(* the code concatenates.                                                  *)
(***************************************************************************)
AGG_D_SUFFIX == <<"dailyAggregate">>

AGG_W_SUFFIX == <<"weeklyAggregate">>

AGG_M_SUFFIX == <<"monthlyAggregate">>

RESAMPLE_D_SUFFIX == <<"resampledDaily">>

\* a str argument, or None
Str(tokens) == [none |-> FALSE, tokens |-> tokens]

None == [none |-> TRUE, tokens |-> <<>>]

\* a variant of extract_export_date that cuts the name at its first '.'
extract_export_date_stem(name) ==
    LET cut == {k \in DOMAIN name : name[k] = 46}
    IN  IF cut = {} THEN name
        ELSE SubSeq(name, 1, (CHOOSE k \in cut : \A j \in cut : k <= j) - 1)

\* db_path.split('/')[-1].split('_')[0], on the file names of the model
extract_export_date(name) ==
    LET cut == {k \in DOMAIN name : name[k] = 95}
    IN  IF cut = {} THEN name
        ELSE SubSeq(name, 1, (CHOOSE k \in cut : \A j \in cut : k <= j) - 1)

file_suffix_map ==
    ("d-agg" :> AGG_D_SUFFIX) @@ ("w-agg" :> AGG_W_SUFFIX) @@ ("m-agg" :> AGG_M_SUFFIX)
        @@ ("d-resample" :> RESAMPLE_D_SUFFIX) @@ ("as-is" :> <<>>)

\* a variant of write_to_csv that gives every file the suffix of the daily aggregate
write_to_csv_daily(date, file_type, tablename) ==
    IF file_type \notin DOMAIN file_suffix_map THEN <<>>
    ELSE <<[date |-> date, rest |-> AGG_D_SUFFIX \o <<".csv">>]>>

\* write_to_csv(dataframe, file_type, tablename): <<file_name>>, or <<>> for ValueError
write_to_csv(date, file_type, tablename) ==
    IF file_type \notin DOMAIN file_suffix_map THEN <<>>
    ELSE LET named == ~tablename.none /\ tablename.tokens # <<>>
             file_prefix == IF named
                            THEN tablename.tokens \o (IF file_type # "as-is" THEN <<"_">> ELSE <<>>)
                            ELSE <<>>
         IN  <<[date |-> date, rest |-> file_prefix \o file_suffix_map[file_type] \o <<".csv">>]>>

\* the file_type arguments of the model: the five of the docstring, and two others
FileTypes == DOMAIN file_suffix_map \cup {"D-resample", "y-agg"}

\* the tablename arguments of the model
TableNames ==
    {None, Str(<<>>), Str(<<"Running">>), Str(<<"Walking">>),
     Str(<<"Running", "_", "resampledDaily">>), Str(<<"dailyAggregate">>)}

\* lines 258-286: DatasetPrep(database_path, ...)
DatasetPrep ==
    /\ pc = "new"
    /\ \E d \in Dates : 
          /\ db_name' = BaseName(DateStr(d), FALSE)
          /\ datestring' = extract_export_date(db_name')
    /\ pc' = "prep"
    /\ UNCHANGED <<files, raised, append_to_existing_db, append_ver, append_from, exclude, root,
                   exportdate, counter, chunk_size, max_vars, elements_to_extract, loop_vars,
                   store_vars, print_error_msgs, call, csv_files>>

\* one call of a function that ends with write_to_csv(table, file_type, tablename)
Write(file_type, tablename, next) ==
    LET file_name == write_to_csv(datestring, file_type, tablename)
    IN  /\ call' = <<[file_type |-> file_type, tablename |-> tablename]>>
        /\ IF file_name = <<>>
           THEN /\ raised' = "ValueError"
                /\ pc' = "aborted"
                /\ UNCHANGED csv_files
           ELSE /\ csv_files' = Append(csv_files, [file_type |-> file_type, tablename |-> tablename,
                                                    file_name |-> file_name[1]])
                /\ pc' = next
                /\ UNCHANGED raised
        /\ UNCHANGED <<files, ctor_vars, elements_to_extract, loop_vars, store_vars, print_error_msgs>>

\* lines 310-350: write_to_csv called by a user of the class
CallWriteToCsv ==
    /\ pc = "prep"
    /\ Len(csv_files) < MaxCalls
    /\ \E file_type \in FileTypes, tablename \in TableNames : Write(file_type, tablename, pc)

\* f'{freq_init}-agg' of line 852, for the freq arguments of __main__
AggType == [d |-> "d-agg", w |-> "w-agg", m |-> "m-agg"]

\* lines 931-934 and 850-854: combine_aggregates('d', ..., write_to_file=True)
CombineDaily ==
    /\ pc = "prep"
    /\ csv_files = <<>>
    /\ Write(AggType.d, None, "main_weekly")

\* lines 935-938
CombineWeekly ==
    /\ pc = "main_weekly"
    /\ Write(AggType.w, None, "main_monthly")

\* lines 939-942
CombineMonthly ==
    /\ pc = "main_monthly"
    /\ Write(AggType.m, None, "main_resampled")

\* lines 945 and 886-890: get_resampled_workout('Running', write_to_file=True)
ResampledRuns ==
    /\ pc = "main_resampled"
    /\ Write("d-resample", Str(<<"Running">>), "main_all_runs")

\* lines 948 and 523-525: load_table('Running', write_to_file=True)
AllRuns ==
    /\ pc = "main_all_runs"
    /\ Write("as-is", Str(<<"Running">>), "prep_done")

InitPrep ==
    /\ Idle
    /\ files = {}

NextPrep ==
    \/ DatasetPrep
    \/ CallWriteToCsv
    \/ CombineDaily
    \/ CombineWeekly
    \/ CombineMonthly
    \/ ResampledRuns
    \/ AllRuns

SpecPrep == InitPrep /\ [][NextPrep]_vars

(***************************************************************************)
(* Properties of the extraction runs.                                      *)
(***************************************************************************)
\* the ids of the rows that table t of database d holds, in order
TableIds(d, t) == IF t \in DOMAIN d THEN Ids(d[t].rows) ELSE <<>>

\* the calls of dataframe_to_sql that the step adds to sql_log
NewCalls == SubSeq(sql_log', Len(sql_log) + 1, Len(sql_log'))

\* the step is one iteration of the loop over the Workout or the Record nodes
NodeStep == pc \in {"workout_loop", "record_loop"}

\* the step is one iteration of a loop that empties table_queue
DrainStep == pc \in {"workout_drain", "record_drain"} /\ table_queue # <<>>

\* C1: when extract_data has completed in non-append mode, the tables of the
\* database are the keys of num_nodes_by_elem and each table holds as many
\* rows as its counter says.
C1_CountersMatchTables ==
    pc = "checked"
        => /\ DOMAIN db = DOMAIN num_nodes_by_elem
           /\ \A tb \in DOMAIN db : Len(db[tb].rows) = num_nodes_by_elem[tb]

\* lines 280-285 and 436-442 as the caller sees them: the rows of every list
\* of table_queue are in the table of its key, after the rows it had, and
\* table_queue holds only what the iteration itself has queued
FlushWrites ==
    /\ \A k \in DOMAIN table_queue :
          LET ids == Ids(DataFrame(table_queue[k].rows))
              old == TableIds(db, table_queue[k].key)
              now == TableIds(db', table_queue[k].key)
          IN  /\ Len(now) >= Len(old) + Len(ids)
              /\ SubSeq(now, 1, Len(old) + Len(ids)) = old \o ids
    /\ \A k \in DOMAIN table_queue' : \A r \in DOMAIN table_queue'[k].rows :
          SubSeq(table_queue'[k].rows[r].id, 1, 2) = node_list[i + 1].attrib.id

\* lines 378-384 and 503-510 as the caller sees them: the rows of the first
\* list are in the table of its key, once, and the key is gone
DrainWrites ==
    /\ table_queue' = Tail(table_queue)
    /\ TableIds(db', Head(table_queue).key)
           = TableIds(db, Head(table_queue).key) \o Ids(DataFrame(Head(table_queue).rows))

\* C2: an iteration whose 1-based index is a multiple of chunk_size first puts
\* the rows of every list of table_queue into the table of its key and leaves
\* in table_queue only what the iteration itself queues; an iteration of the
\* drain loop puts the rows of the first list into its table, once, and
\* removes the key; the call returns only with table_queue empty.
C2_FlushAndDrainWrite ==
    [][ /\ (NodeStep /\ (i + 1) % chunk_size = 0 /\ raised' = "none") => FlushWrites
        /\ (DrainStep /\ raised' = "none") => DrainWrites
        /\ (pc \in {"workout_drain", "record_drain"} /\ pc' = "extract") => table_queue = <<>>
      ]_vars

RECURSIVE WrittenIds(_, _)
\* the row ids of the calls for table t that ended with the rows written:
\* at once, or by add_newcols_to_table
WrittenIds(calls, t) ==
    IF calls = <<>> THEN <<>>
    ELSE (IF Head(calls).table = t /\ Head(calls).err \in {"none", "has no column"}
          THEN Head(calls).ids ELSE <<>>) \o WrittenIds(Tail(calls), t)

\* the calls among them for table t that met the error err
CallsWith(calls, t, err) == {j \in DOMAIN calls : calls[j].table = t /\ calls[j].err = err}

\* table_error_count[t], 0 before the first write to t
ErrorCount(count, t) == IF t \in DOMAIN count THEN count[t] ELSE 0

\* C3: a step in which a write to table t meets 'has no column' leaves in t the
\* rows it had, then every row of the DataFrame exactly once; t has every
\* column of its rows; table_error_count[t] has grown by one for that write.
C3_MissingColumnRetry ==
    [][ \A t \in DOMAIN db' :
           CallsWith(NewCalls, t, "has no column") # {}
               => /\ TableIds(db', t) = TableIds(db, t) \o WrittenIds(NewCalls, t)
                  /\ \A r \in DOMAIN db'[t].rows : DOMAIN db'[t].rows[r].attrib \subseteq db'[t].cols
                  /\ ErrorCount(table_error_count', t)
                         = ErrorCount(table_error_count, t)
                               + Cardinality({j \in DOMAIN NewCalls :
                                                 NewCalls[j].table = t /\ NewCalls[j].err # "none"})
      ]_vars

\* the tags that the loops over the subtree of a node have a branch for
SupportedUnder ==
    [Workout |-> {"Workout", "MetadataEntry", "FileReference", "WorkoutEvent", "WorkoutRoute"},
     Record |-> {"Record", "MetadataEntry", "InstantaneousBeatsPerMinute",
                 "HeartRateVariabilityMetadataList"}]

Offending(node) == TagsOf(node) \ SupportedUnder[node.tag] # {}

\* the flush at the head of the iteration has ended with an exception
FlushRaised == NewCalls # <<>> /\ raised' \notin {"none", "ValueError"}

\* C4: the iteration for a node with an unsupported descendant tag, unless the
\* flush before it fails, ends with ValueError; the run is aborted; no step
\* follows an exception, so no later node is processed.
C4_UnsupportedTagAborts ==
    [][ /\ raised = "none"
        /\ (NodeStep /\ Offending(node_list[i + 1]))
            => (pc' = "aborted" /\ (raised' = "ValueError" \/ FlushRaised))
      ]_vars

\* the run has stopped at an offending node that is not the last of its list
C4_Witness ==
    /\ raised = "ValueError"
    /\ pc = "aborted"
    /\ i < Len(node_list)
    /\ Offending(node_list[i])

\* C9: the database never has a table named Correlation, Audiogram or
\* ClinicalRecord, nor one named by a tag that exclude lists.
C9_NoExcludedTable ==
    pc # "new" => DOMAIN db \cap ({"Correlation", "Audiogram", "ClinicalRecord"} \cup exclude) = {}

(***************************************************************************)
(* Properties of append runs (SpecAppend) and of get_nodes_after_datetime  *)
(* (SpecNodes).                                                            *)
(***************************************************************************)
\* extract_record_elements has returned or raised
RecordsHandled ==
    /\ pc \in {"extract", "done", "aborted"}
    /\ "Record" \in root.tags
    /\ "Record" \notin elements_to_extract

\* how many rows of table t of the database have the id of node n
Copies(n, t) == Cardinality({r \in DOMAIN TableIds(db, t) : TableIds(db, t)[r] = n.attrib.id})

\* C5: once extract_record_elements is over in append mode, the table of the
\* prefix-stripped type of a Record node of the export has the node once if
\* its startDate >= append_from, and not at all otherwise.
C5_AppendsRecordsFromDate ==
    (append_to_existing_db /\ RecordsHandled)
        => \A k \in DOMAIN root.Record :
              Copies(root.Record[k], RecordNodeType(root.Record[k]))
                  = IF root.Record[k].attrib.startDate >= append_from[1] THEN 1 ELSE 0

\* the nodes of the list with startDate >= date_start, in the order of the list
NodesFrom(date_start, list) ==
    LET Late(n) == n.attrib.startDate >= date_start
    IN  SelectSeq(list, Late)

\* C6: a call of get_nodes_after_datetime on a non-empty list in ascending
\* order of startDate returns the nodes with startDate >= date_start, the
\* empty list when there is none and the whole list when all are.
C6_ExactlyNodesFromDate ==
    (call # <<>> /\ call[1].status # "called")
        => /\ call[1].status = "returned"
           /\ call[1].result = NodesFrom(call[1].date_start, call[1].full_node_list)

(***************************************************************************)
(* Properties of the choice of the database file (SpecCtor).               *)
(***************************************************************************)
\* C7: asked to append with .db files in data/, the constructor stays in
\* append mode and takes the file that sorts last, whose date prefix no other
\* file exceeds, and the run leaves data/ as it is; asked to append with no
\* .db file, it falls back to a new file named after the export, append_from
\* stays None, and extract_data ends with check_results and the new file.
C7_AppendSelectsLatest ==
    [][ /\ (pc = "name" /\ append_to_existing_db /\ files # {})
            => /\ append_to_existing_db'
               /\ db_name' \in files
               /\ \A g \in files \ {db_name'} : StrLess(g, db_name')
               /\ \A g \in files : ~StrLess(First8(db_name'), First8(g))
        /\ (pc # "name" /\ append_to_existing_db) => files' = files
        /\ (pc = "name" /\ append_to_existing_db /\ files = {})
            => /\ ~append_to_existing_db'
               /\ db_name' = BaseName(DateStr(exportdate), append_ver)
        /\ (pc \notin {"new", "name"} /\ ~append_to_existing_db)
            => (~append_to_existing_db' /\ append_from' = <<>>)
        /\ (pc = "extract" /\ elements_to_extract = {} /\ ~append_to_existing_db)
            => (pc' = "checked" /\ db_name \in files')
      ]_vars

\* an append run that had two files to choose from has ended
C7_Witness ==
    /\ pc = "done"
    /\ append_to_existing_db
    /\ Cardinality(files) >= 2
    /\ db_name \in files

\* the name of the export of date d without counter, and with counter k
FreshName(d, ver, fs) ==
    IF BaseName(DateStr(d), ver) \notin fs THEN BaseName(DateStr(d), ver)
    ELSE CountedName(DateStr(d), ver,
                     CHOOSE k \in 1..(Cardinality(fs) + 1) :
                        /\ CountedName(DateStr(d), ver, k) \notin fs
                        /\ \A j \in 1..(k - 1) : CountedName(DateStr(d), ver, j) \in fs)

\* C8: a non-append run creates its engine on a path that does not exist, the
\* name of the export date without counter if that is free and else with the
\* smallest free counter; the renaming loop makes at most one iteration per
\* file of data/; data/ changes only by the file of that name, which is
\* there when the run has ended.
C8_NewFileName ==
    [][ /\ (pc = "engine" /\ ~append_to_existing_db)
            => /\ db_name \notin files
               /\ db_name = FreshName(exportdate, append_ver, files)
               /\ db = EmptyDict
        /\ pc = "rename" => counter <= Cardinality(files) + 1
        /\ ~append_to_existing_db => files' \in {files, files \cup {db_name}}
        /\ pc' = "checked" => db_name \in files'
      ]_vars

\* a run has ended with the counter 2 in the name of its file
C8_Witness ==
    /\ pc = "checked"
    /\ db_name = CountedName(DateStr(exportdate), append_ver, 2)
    /\ db_name \in files

(***************************************************************************)
(* Properties of preparedatasets.py (SpecPrep).                            *)
(***************************************************************************)
\* the five names of the module docstring, for the export date of the database
FiveNames ==
    {[date |-> datestring, rest |-> r] :
        r \in {<<"dailyAggregate", ".csv">>, <<"weeklyAggregate", ".csv">>,
               <<"monthlyAggregate", ".csv">>, <<"Running", "_", "resampledDaily", ".csv">>,
               <<"Running", ".csv">>}}

Written == {csv_files[k].file_name : k \in DOMAIN csv_files}

\* __main__ has run to its end and has written exactly the five names
FiveFiles == pc = "prep_done" => (Len(csv_files) = 5 /\ Written = FiveNames)

\* a call with a file_type outside the five raises ValueError and writes
\* nothing, and no other call raises
BadTypeRaises ==
    /\ raised = "ValueError" => (call[1].file_type \notin DOMAIN file_suffix_map /\ pc = "aborted")
    /\ \A k \in DOMAIN csv_files : csv_files[k].file_type \in DOMAIN file_suffix_map
    /\ (call # <<>> /\ call[1].file_type \notin DOMAIN file_suffix_map) => raised = "ValueError"

SamePair(a, b) == a.file_type = b.file_type /\ a.tablename = b.tablename

\* C10 as stated: the five files of a run, a ValueError for any other
\* file_type, and distinct file names for any two calls of write_to_csv with
\* distinct (file_type, tablename).
C10_DistinctPairsDistinctNames ==
    /\ FiveFiles
    /\ BadTypeRaises
    /\ \A j, k \in DOMAIN csv_files :
          ~SamePair(csv_files[j], csv_files[k]) => csv_files[j].file_name # csv_files[k].file_name

\* the tablename is None or the name of one table of the database
TableOrNone(tablename) == tablename \in {None, Str(<<"Running">>), Str(<<"Walking">>)}

\* C10 amended: the five files of a run, a ValueError for any other file_type,
\* and distinct file names for any two calls of write_to_csv with distinct
\* (file_type, tablename) whose tablename is None or the name of a table.
C10_TablePairsDistinctNames ==
    /\ FiveFiles
    /\ BadTypeRaises
    /\ \A j, k \in DOMAIN csv_files :
          (/\ ~SamePair(csv_files[j], csv_files[k])
           /\ TableOrNone(csv_files[j].tablename)
           /\ TableOrNone(csv_files[k].tablename))
              => csv_files[j].file_name # csv_files[k].file_name

\* __main__ has written its five files
C10_Witness ==
    /\ pc = "prep_done"
    /\ Len(csv_files) = 5
    /\ Cardinality(Written) = 5

(***************************************************************************)
(* Properties of the date in the file names (SpecCtor).                    *)
(***************************************************************************)
\* extract_data has returned without an exception
RunOver == pc \in {"checked", "done"} /\ raised = "none"

\* the value of the last row of table ExportDate, as strftime("%Y%m%d") gives it
LastExportDate == DateStr(db.ExportDate.rows[Len(db.ExportDate.rows)].attrib.value)

\* C11 as stated: after every run, appending or not, the date that
\* extract_export_date reads from the path of the database is the export date
\* of the data in it, the value of the last row of table ExportDate.
C11_NameDateIsExportDate ==
    RunOver => /\ "ExportDate" \in DOMAIN db
               /\ extract_export_date(db_name) = LastExportDate

\* C11 amended: after a non-append run, with or without version and counter
\* in the name, the date read from the path is the export date of the data;
\* after an append run it is the date in the name of the file appended to.
C11_NameDateOfFirstExport ==
    RunOver => /\ "ExportDate" \in DOMAIN db
               /\ ~append_to_existing_db
                     => /\ extract_export_date(db_name) = LastExportDate
                        /\ LastExportDate = DateStr(exportdate)
               /\ append_to_existing_db
                     => /\ db_name \in files
                        /\ extract_export_date(db_name) = First8(db_name)
                        /\ extract_export_date(db_name) = datestring

\* a non-append run has ended with version and counter in the name of its file
C11_Witness ==
    /\ RunOver
    /\ ~append_to_existing_db
    /\ db_name = CountedName(DateStr(exportdate), TRUE, 1)

(***************************************************************************)
(* get_daily_agg_method of preparedatasets.py (SpecDaily).  A column name  *)
(* is a sequence of words; a keyword is in a name when its words are a     *)
(* contiguous part of the words of the name.                               *)
(***************************************************************************)
\* the words that the column names of the model are made of
Vocabulary ==
    {"Total", "Avg", "average", "Maximum", "Minimum", "Duration", "start", "end", "Date",
     "Elevation", "Weather", "Step", "Count", " "}

\* str.lower() on one word
LowerWord ==
    [w \in Vocabulary |->
        CASE w = "Total" -> "total" [] w = "Avg" -> "avg" [] w = "Maximum" -> "maximum"
          [] w = "Minimum" -> "minimum" [] w = "Duration" -> "duration" [] w = "Date" -> "date"
          [] w = "Elevation" -> "elevation" [] w = "Weather" -> "weather" [] w = "Step" -> "step"
          [] w = "Count" -> "count" [] OTHER -> w]

\* c.lower()
lower(c) == [k \in DOMAIN c |-> IF c[k] \in Vocabulary THEN LowerWord[c[k]] ELSE c[k]]

\* col.replace(' ', '')
RemoveSpaces(col) ==
    LET NotSpace(w) == w # " "
    IN  SelectSeq(col, NotSpace)

\* sub in col, for str
In(sub, col) ==
    \E k \in 0..(Len(col) - Len(sub)) : SubSeq(col, k + 1, k + Len(sub)) = sub

\* lines 86-116: the body of the loop for column c; <<>> when the dict gets no entry
DailyMethod(c) ==
    LET col == lower(c)
    IN  IF In(<<"total">>, col) THEN <<"sum">>
        ELSE IF In(<<"avg">>, col) \/ In(<<"average">>, col) THEN <<"mean">>
        ELSE IF In(<<"maximum">>, col) THEN <<"max">>
        ELSE IF In(<<"minimum">>, col) THEN <<"min">>
        ELSE IF In(<<"duration">>, col) THEN <<"sum">>
        ELSE IF In(<<"start", "date">>, col) THEN <<"first">>
        ELSE IF In(<<"end", "date">>, col) THEN <<"last">>
        ELSE IF In(<<"menstrual", " ", "cycle", " ", "start">>, RemoveSpaces(col)) THEN <<"max">>
        ELSE IF In(<<"elevation">>, col) THEN <<"sum">>
        ELSE IF In(<<"weather">>, col) THEN <<"mean">>
        ELSE IF In(<<"step", "count">>, RemoveSpaces(col)) THEN <<"sum">>
        ELSE IF col = <<"Date">> THEN <<>>
        ELSE <<"mean">>

RECURSIVE get_daily_agg_method(_)
\* get_daily_agg_method(list_of_cols): the dict agg; a later column of the same
\* name overwrites the entry of an earlier one
get_daily_agg_method(list_of_cols) ==
    IF list_of_cols = <<>> THEN EmptyDict
    ELSE LET c == list_of_cols[Len(list_of_cols)]
             agg == get_daily_agg_method(SubSeq(list_of_cols, 1, Len(list_of_cols) - 1))
         IN  IF DailyMethod(c) = <<>> THEN agg
             ELSE (c :> DailyMethod(c)[1]) @@ agg

\* the column names of the model: up to MaxWords words
ColumnNames == SeqsUpTo(Vocabulary, MaxWords) \ {<<>>}

\* columns of a table that aggregate_daily passes, before the column of the model
TableColumns == {<<>>, <<<<"start", "Date">>, <<"Duration">>, <<"Total", " ", "Distance">>>>}

\* line 620: get_daily_agg_method(list(data.columns)) is called
CallDailyAgg ==
    /\ pc = "new"
    /\ \E t \in TableColumns, c \in ColumnNames :
          call' = <<[list_of_cols |-> Append(t, c), agg |-> EmptyDict]>>
    /\ pc' = "daily_called"
    /\ UNCHANGED <<files, raised, ctor_vars, elements_to_extract, loop_vars, store_vars,
                   print_error_msgs, csv_files>>

\* lines 83-118: it returns the dict
ReturnDailyAgg ==
    /\ pc = "daily_called"
    /\ call' = <<[call[1] EXCEPT !.agg = get_daily_agg_method(call[1].list_of_cols)]>>
    /\ pc' = "daily_returned"
    /\ UNCHANGED <<files, raised, ctor_vars, elements_to_extract, loop_vars, store_vars,
                   print_error_msgs, csv_files>>

InitDaily == Idle /\ files = {}

NextDaily ==
    \/ CallDailyAgg
    \/ ReturnDailyAgg

SpecDaily == InitDaily /\ [][NextDaily]_vars

\* the method that the keywords of the lower-cased name give, first match
\* first; <<>> for the column named Date
KeywordMethod(c) ==
    LET col == lower(c)
        Has(w) == \E k \in DOMAIN col : col[k] = w
    IN  IF Has("total") THEN <<"sum">>
        ELSE IF Has("avg") \/ Has("average") THEN <<"mean">>
        ELSE IF Has("maximum") THEN <<"max">>
        ELSE IF Has("minimum") THEN <<"min">>
        ELSE IF Has("duration") THEN <<"sum">>
        ELSE IF In(<<"start", "date">>, col) THEN <<"first">>
        ELSE IF In(<<"end", "date">>, col) THEN <<"last">>
        ELSE IF Has("elevation") THEN <<"sum">>
        ELSE IF Has("weather") THEN <<"mean">>
        ELSE IF In(<<"step", "count">>, col) THEN <<"sum">>
        ELSE IF c = <<"Date">> THEN <<>>
        ELSE <<"mean">>

\* C12: the dict that get_daily_agg_method returns has, for every column of
\* the list, the method of the first keyword that the lower-cased name
\* contains, mean when it contains none, and no entry for the column Date; it
\* has no other entry.
C12_KeywordMethods ==
    pc = "daily_returned"
        => LET cols == call[1].list_of_cols
               agg == call[1].agg
           IN  /\ DOMAIN agg \subseteq {cols[k] : k \in DOMAIN cols}
               /\ \A k \in DOMAIN cols :
                     IF KeywordMethod(cols[k]) = <<>> THEN cols[k] \notin DOMAIN agg
                     ELSE cols[k] \in DOMAIN agg /\ agg[cols[k]] = KeywordMethod(cols[k])[1]

(***************************************************************************)
(* aggregate_weekly of preparedatasets.py (SpecWeekly).  A date is the     *)
(* number of a day; day 0 is a Monday.                                     *)
(***************************************************************************)
\* the dates of the model: a little more than two weeks
Days == 0..MaxDay

RECURSIVE DailyRows(_, _)
\* the rows of the dates of S in ascending order of Date, with the distances f
DailyRows(S, f) ==
    IF S = {} THEN <<>>
    ELSE LET d == CHOOSE x \in S : \A y \in S : x <= y
         IN  <<[Date |-> d, distance |-> f[d]]>> \o DailyRows(S \ {d}, f)

\* the daily aggregates of the model: one row per date that has a workout, in
\* ascending order of Date (aggregate_daily groups by date), with the column
\* Total Distance
DailyTables ==
    UNION {{DailyRows(S, f) : f \in [S -> 1..2]} :
              S \in {T \in SUBSET Days : Cardinality(T) \in 1..MaxRows}}

\* Week(weekday=0).rollback(date): the date itself when it is a Monday
rollback(date) == date - (date % 7)

\* date + Week(weekday=0): the first Monday after the date
PlusWeek(date) == date + 7 - (date % 7)

\* a variant of the bins for closed='right': the rows of m - 7 < Date <= m
WeekBinRight(daily, m) ==
    LET InBin(r) == m - 7 < r.Date /\ r.Date <= m
    IN  SelectSeq(daily, InBin)

\* generate_bins_dt64 for closed='left': the bin of edge m has the rows of
\* m <= Date < m + 7
WeekBin(daily, m) ==
    LET InBin(r) == m <= r.Date /\ r.Date < m + 7
    IN  SelectSeq(daily, InBin)

RECURSIVE SumDistance(_)
\* the 'sum' of lines 132 and 668 on the column of one group
SumDistance(rows) == IF rows = <<>> THEN 0 ELSE Head(rows).distance + SumDistance(Tail(rows))

RECURSIVE WeeklyRows(_, _, _)
\* lines 666-668: groupby(Grouper(key='Date', freq='W-MON', closed='left',
\* label='left')).agg: one row per edge but the last, labelled with the edge
WeeklyRows(daily, m, last_edge) ==
    IF m >= last_edge THEN <<>>
    ELSE <<[label |-> m,
            Dates |-> {WeekBin(daily, m)[k].Date : k \in DOMAIN WeekBin(daily, m)},
            sum |-> SumDistance(WeekBin(daily, m))]>>
         \o WeeklyRows(daily, m + 7, last_edge)

\* aggregate_weekly(table_name), on the daily aggregate of the table; the edges
\* of the bins are the Mondays from rollback(first) to last + freq
\* (_get_timestamp_range_edges for closed='left')
aggregate_weekly(daily) ==
    LET first == daily[1].Date
        last == daily[Len(daily)].Date
    IN  WeeklyRows(daily, rollback(first), PlusWeek(last))

\* lines 643-646: aggregate_weekly is called and has the daily aggregate
CallAggregateWeekly ==
    /\ pc = "new"
    /\ \E t \in DailyTables : call' = <<[daily |-> t, weekly |-> <<>>]>>
    /\ pc' = "weekly_called"
    /\ UNCHANGED <<files, raised, ctor_vars, elements_to_extract, loop_vars, store_vars,
                   print_error_msgs, csv_files>>

\* lines 648-679: it returns the weekly aggregate
ReturnAggregateWeekly ==
    /\ pc = "weekly_called"
    /\ call' = <<[call[1] EXCEPT !.weekly = aggregate_weekly(call[1].daily)]>>
    /\ pc' = "weekly_returned"
    /\ UNCHANGED <<files, raised, ctor_vars, elements_to_extract, loop_vars, store_vars,
                   print_error_msgs, csv_files>>

(***************************************************************************)
(* get_resampled_workout of preparedatasets.py (SpecWeekly).               *)
(***************************************************************************)
\* index.isocalendar().week, counted from the week of day 0
isocalendar_week(date) == date \div 7 + 1

\* a variant of asfreq that keeps the rows of the daily aggregate and adds none
reindex_present(daily, date, last) ==
    [k \in DOMAIN daily |-> [Date |-> daily[k].Date, distance |-> <<daily[k].distance>>]]

RECURSIVE reindex(_, _, _)
\* resample("D").asfreq() as reindex to date_range(first, last, freq='D'): the
\* row of the date when the daily aggregate has one, else a row of NaN (<<>>)
reindex(daily, date, last) ==
    IF date > last THEN <<>>
    ELSE LET OnDay(r) == r.Date = date
             found == SelectSeq(daily, OnDay)
         IN  <<[Date |-> date,
                distance |-> IF found = <<>> THEN <<>> ELSE <<found[1].distance>>]>>
             \o reindex(daily, date + 1, last)

\* lines 876-881: set_index('Date'), resample("D").asfreq(), 'Calendar Week'
get_resampled_workout(daily) ==
    LET resampled == reindex(daily, daily[1].Date, daily[Len(daily)].Date)
    IN  [k \in DOMAIN resampled |->
            [Date |-> resampled[k].Date, distance |-> resampled[k].distance,
             CalendarWeek |-> isocalendar_week(resampled[k].Date)]]

\* lines 871-874: get_resampled_workout is called and has the daily aggregate
CallResampledWorkout ==
    /\ pc = "new"
    /\ \E t \in DailyTables : call' = <<[daily |-> t, resampled |-> <<>>]>>
    /\ pc' = "resample_called"
    /\ UNCHANGED <<files, raised, ctor_vars, elements_to_extract, loop_vars, store_vars,
                   print_error_msgs, csv_files>>

\* lines 876-892: it returns the resampled table (write_to_file False)
ReturnResampledWorkout ==
    /\ pc = "resample_called"
    /\ call' = <<[call[1] EXCEPT !.resampled = get_resampled_workout(call[1].daily)]>>
    /\ pc' = "resample_returned"
    /\ UNCHANGED <<files, raised, ctor_vars, elements_to_extract, loop_vars, store_vars,
                   print_error_msgs, csv_files>>

InitWeekly == Idle /\ files = {}

NextWeekly ==
    \/ CallAggregateWeekly
    \/ ReturnAggregateWeekly
    \/ CallResampledWorkout
    \/ ReturnResampledWorkout

SpecWeekly == InitWeekly /\ [][NextWeekly]_vars

\* the Monday on or before the date
MondayOf(date) == CHOOSE m \in (date - 6)..date : m % 7 = 0

RECURSIVE DistanceOfDays(_, _)
\* the sum of the daily Total Distance values over the dates of S
DistanceOfDays(daily, S) ==
    IF S = {} THEN 0
    ELSE LET d == CHOOSE x \in S : TRUE
             OnDay(r) == r.Date = d
         IN  (IF SelectSeq(daily, OnDay) = <<>> THEN 0 ELSE SelectSeq(daily, OnDay)[1].distance)
                 + DistanceOfDays(daily, S \ {d})

\* C13: the weekly aggregate has one row for every week, Monday to Sunday,
\* from the week of the first daily date to the week of the last, in order;
\* every daily row is in the row of the Monday on or before its date and in no
\* other; the sum of a week is the sum of the daily distances of its seven days.
C13_OneRowPerIsoWeek ==
    pc = "weekly_returned"
        => LET daily == call[1].daily
               weekly == call[1].weekly
               first == daily[1].Date
               last == daily[Len(daily)].Date
           IN  /\ Len(weekly) = (MondayOf(last) - MondayOf(first)) \div 7 + 1
               /\ \A k \in DOMAIN weekly : weekly[k].label = MondayOf(first) + 7 * (k - 1)
               /\ \A r \in DOMAIN daily : \A k \in DOMAIN weekly :
                     daily[r].Date \in weekly[k].Dates <=> weekly[k].label = MondayOf(daily[r].Date)
               /\ \A k \in DOMAIN weekly :
                     weekly[k].sum = DistanceOfDays(daily, weekly[k].label..(weekly[k].label + 6))

\* a weekly aggregate of three weeks or more, one of them with no day, from a
\* daily aggregate with a row on a Monday
C13_Witness ==
    /\ pc = "weekly_returned"
    /\ Len(call[1].weekly) >= 3
    /\ \E k \in DOMAIN call[1].weekly : call[1].weekly[k].Dates = {} /\ call[1].weekly[k].sum = 0
    /\ \E r \in DOMAIN call[1].daily : call[1].daily[r].Date % 7 = 0

\* C14: the resampled table has one row for every day from the first to the
\* last date of the daily aggregate, in order and so none twice; the row of a
\* day of the daily aggregate has its value, the row of any other day has none.
C14_OneRowPerDay ==
    pc = "resample_returned"
        => LET daily == call[1].daily
               resampled == call[1].resampled
               first == daily[1].Date
               last == daily[Len(daily)].Date
           IN  /\ Len(resampled) = last - first + 1
               /\ \A k \in DOMAIN resampled : resampled[k].Date = first + k - 1
               /\ \A k \in DOMAIN resampled :
                     IF \E r \in DOMAIN daily : daily[r].Date = resampled[k].Date
                     THEN \E r \in DOMAIN daily :
                             /\ daily[r].Date = resampled[k].Date
                             /\ resampled[k].distance = <<daily[r].distance>>
                     ELSE resampled[k].distance = <<>>

\* a resampled table with days that have no workout between two that have one
C14_Witness ==
    /\ pc = "resample_returned"
    /\ Len(call[1].daily) = 2
    /\ Len(call[1].resampled) > 3
    /\ \E k \in DOMAIN call[1].resampled : call[1].resampled[k].distance = <<>>

(***************************************************************************)
(* The click-driven callbacks of statscard_callbacks.py and                *)
(* weekstats_callbacks.py (SpecClick).  click_data is <<>> for None and    *)
(* <<date>> for a click on the point of a date.                            *)
(***************************************************************************)
\* [''] * n
Repeat(x, n) == [k \in 1..n |-> x]

\* the Output list of each callback
Outputs ==
    [statscard_update_weekly_stats |->
        <<"week-stat-distance", "week-stat-duration", "week-stat-avgpace",
          "week-stat-avgdistance", "week-stat-avgvo2", "week-stat-avgrhr", "week-stats-title">>,
     statscard_update_monthly_stats |->
        <<"month-stat-distance", "month-stat-duration", "month-stat-avgpace",
          "month-stat-avgdistance", "month-stat-avgvo2", "month-stat-avgrhr", "month-stats-title">>,
     update_week_info |-> <<"week-info">>,
     weekstats_update_weekly_stats |->
        <<"week-stat-distance", "week-stat-duration", "week-stat-pace">>]

\* get_list_of_stats(time_period_type, selected_time): one message per entry of
\* data_to_get, "No data" when there is no row for the date
get_list_of_stats(time_period_type, selected_time, has_data) ==
    LET data_to_get == <<"Total Distance_sum", "Total Duration_sum", "Avg Pace_mean",
                         "Total Distance_mean", "Avg VO2_mean", "Avg Resting Heart Rate_mean">>
    IN  [k \in DOMAIN data_to_get |->
            IF has_data THEN <<time_period_type, data_to_get[k], selected_time>>
            ELSE <<"No data">>]

\* statscard_callbacks.update_weekly_stats(click_data)
statscard_update_weekly_stats(click_data, has_data) ==
    IF click_data = <<>> THEN Repeat(<<"">>, 7)
    ELSE Append(get_list_of_stats("week", click_data[1], has_data), <<"Week of", click_data[1]>>)

\* statscard_callbacks.update_monthly_stats(click_data)
statscard_update_monthly_stats(click_data, has_data) ==
    IF click_data = <<>> THEN Repeat(<<"">>, 6)
    ELSE Append(get_list_of_stats("month", click_data[1], has_data), <<"Month of", click_data[1]>>)

\* weekstats_callbacks.update_week_info(click_data)
update_week_info(click_data) ==
    IF click_data = <<>> THEN <<<<"Week of">>>>
    ELSE <<<<"Week of", click_data[1]>>>>

\* weekstats_callbacks.update_weekly_stats(click_data)
weekstats_update_weekly_stats(click_data) ==
    IF click_data = <<>> THEN <<<<"">>, <<"">>, <<"">>>>
    ELSE <<<<"distance", click_data[1]>>, <<"duration", click_data[1]>>, <<"pace", click_data[1]>>>>

\* the clickData of the model: None, or a click on the point of a date
ClickData == {<<>>} \cup {<<d>> : d \in Days}

\* the dashboard calls callback cb with click_data and gets the list returned
Fire(cb, click_data, returned) ==
    /\ pc \in {"new", "fired"}
    /\ call' = <<[callback |-> cb, click_data |-> click_data, returned |-> returned]>>
    /\ pc' = "fired"
    /\ UNCHANGED <<files, raised, ctor_vars, elements_to_extract, loop_vars, store_vars,
                   print_error_msgs, csv_files>>

UpdateWeeklyStats ==
    \E c \in ClickData, has_data \in BOOLEAN :
        Fire("statscard_update_weekly_stats", c, statscard_update_weekly_stats(c, has_data))

UpdateMonthlyStats ==
    \E c \in ClickData, has_data \in BOOLEAN :
        Fire("statscard_update_monthly_stats", c, statscard_update_monthly_stats(c, has_data))

UpdateWeekInfo ==
    \E c \in ClickData : Fire("update_week_info", c, update_week_info(c))

WeekUpdateWeeklyStats ==
    \E c \in ClickData :
        Fire("weekstats_update_weekly_stats", c, weekstats_update_weekly_stats(c))

InitClick == Idle /\ files = {}

NextClick ==
    \/ UpdateWeeklyStats
    \/ UpdateMonthlyStats
    \/ UpdateWeekInfo
    \/ WeekUpdateWeeklyStats

SpecClick == InitClick /\ [][NextClick]_vars

\* C15: a callback called with click_data None returns placeholder strings,
\* one for each Output it declares.
C15_PlaceholderPerOutput ==
    (pc = "fired" /\ call[1].click_data = <<>>)
        => /\ Len(call[1].returned) = Len(Outputs[call[1].callback])
           /\ \A k \in DOMAIN call[1].returned : call[1].returned[k] \in {<<"">>, <<"Week of">>}

(***************************************************************************)
(* get_weeks_of_month (utils.py) and the calendar arithmetic it uses       *)
(* (SpecCalendar).  A date is a record [year, month, day]; the ordinal of  *)
(* a date is its proleptic Gregorian day number, 1 for 0001-01-01.         *)
(***************************************************************************)
FirstYear == 2019   \* the years of the model are FirstYear..FirstYear+MaxYears
MaxYears == 5

Years == FirstYear..(FirstYear + MaxYears)

isleap(year) == year % 4 = 0 /\ (year % 100 # 0 \/ year % 400 = 0)

\* monthrange(year, month)[1]: the number of days of the month
DaysInMonth(year, month) ==
    IF month = 2 THEN (IF isleap(year) THEN 29 ELSE 28)
    ELSE IF month \in {4, 6, 9, 11} THEN 30 ELSE 31

RECURSIVE DaysBeforeMonth(_, _)
DaysBeforeMonth(year, month) ==
    IF month = 1 THEN 0
    ELSE DaysBeforeMonth(year, month - 1) + DaysInMonth(year, month - 1)

\* date.toordinal()
toordinal(d) ==
    LET y == d.year - 1
    IN  y * 365 + y \div 4 - y \div 100 + y \div 400
            + DaysBeforeMonth(d.year, d.month) + d.day

\* date(year, month, day)
date(year, month, day) == [year |-> year, month |-> month, day |-> day]

\* date.weekday(): 0 is Monday
weekday(d) == (toordinal(d) + 6) % 7

\* date - timedelta(days=n)
MinusDays(d, n) ==
    CHOOSE e \in [year : {d.year - 1, d.year}, month : 1..12, day : 1..31] :
        /\ e.day <= DaysInMonth(e.year, e.month)
        /\ toordinal(e) = toordinal(d) - n

\* monthcalendar(year, month): the weeks of the month, Monday first, each a
\* list of seven day numbers with 0 for the days outside the month
monthcalendar(year, month) ==
    LET day1 == weekday(date(year, month, 1))
        ndays == DaysInMonth(year, month)
        nweeks == (day1 + ndays + 6) \div 7
    IN  [w \in 1..nweeks |->
            [k \in 1..7 |->
                LET n == (w - 1) * 7 + k - day1
                IN  IF n >= 1 /\ n <= ndays THEN n ELSE 0]]

\* wk.count(0)
CountZero(wk) == Cardinality({k \in DOMAIN wk : wk[k] = 0})

\* the start date of week wk, with the previous month ending n_back days
\* before the start
WeekStart(wk, in_month, in_year, n_back) ==
    IF wk[1] = 0
    THEN LET prev_year == IF in_month = 1 THEN in_year - 1 ELSE in_year
             prev_month == IF in_month = 1 THEN 12 ELSE in_month - 1
             last_date == DaysInMonth(prev_year, prev_month)
             prev_month_last_day == date(prev_year, prev_month, last_date)
         IN  MinusDays(prev_month_last_day, n_back)
    ELSE date(in_year, in_month, wk[1])

get_weeks_of_month_late(in_month, in_year) ==
    LET month_cal == monthcalendar(in_year, in_month)
    IN  [w \in DOMAIN month_cal |->
            WeekStart(month_cal[w], in_month, in_year, CountZero(month_cal[w]))]

get_weeks_of_month(in_month, in_year) ==
    LET month_cal == monthcalendar(in_year, in_month)
    IN  [w \in DOMAIN month_cal |->
            WeekStart(month_cal[w], in_month, in_year, CountZero(month_cal[w]) - 1)]

CallWeeksOfMonth ==
    /\ pc = "new"
    /\ \E m \in 1..12, y \in Years :
        call' = <<[in_month |-> m, in_year |-> y, week_start_dates |-> <<>>]>>
    /\ pc' = "weeks_called"
    /\ UNCHANGED <<files, raised, ctor_vars, elements_to_extract, loop_vars, store_vars,
                   print_error_msgs, csv_files>>

ReturnWeeksOfMonth ==
    /\ pc = "weeks_called"
    /\ call' = <<[call[1] EXCEPT !.week_start_dates =
                    get_weeks_of_month(call[1].in_month, call[1].in_year)]>>
    /\ pc' = "weeks_returned"
    /\ UNCHANGED <<files, raised, ctor_vars, elements_to_extract, loop_vars, store_vars,
                   print_error_msgs, csv_files>>

InitCalendar == Idle /\ files = {}

NextCalendar ==
    \/ CallWeeksOfMonth
    \/ ReturnWeeksOfMonth

SpecCalendar == InitCalendar /\ [][NextCalendar]_vars

\* C16: get_weeks_of_month returns Mondays, 7 days apart, the first being the
\* Monday on or before the 1st of the month and the last lying in the month.
C16_WeekStartsAreMondays ==
    pc = "weeks_returned" =>
        LET w == call[1].week_start_dates
            first == date(call[1].in_year, call[1].in_month, 1)
        IN  /\ Len(w) >= 1
            /\ \A k \in DOMAIN w : weekday(w[k]) = 0
            /\ \A k \in 1..(Len(w) - 1) : toordinal(w[k + 1]) = toordinal(w[k]) + 7
            /\ toordinal(w[1]) <= toordinal(first)
            /\ toordinal(w[1]) > toordinal(first) - 7
            /\ w[1].month # call[1].in_month =>
                   IF call[1].in_month = 1
                   THEN w[1].year = call[1].in_year - 1 /\ w[1].month = 12
                   ELSE w[1].year = call[1].in_year /\ w[1].month = call[1].in_month - 1
            /\ w[Len(w)].year = call[1].in_year
            /\ w[Len(w)].month = call[1].in_month

\* a January whose first week starts in December of the year before
C16_Witness ==
    /\ pc = "weeks_returned"
    /\ call[1].in_month = 1
    /\ call[1].week_start_dates[1].year = call[1].in_year - 1
    /\ call[1].week_start_dates[1].month = 12
    /\ Len(call[1].week_start_dates) = 5

(***************************************************************************)
(* ActivitySummary in append mode (SpecAppend).                            *)
(***************************************************************************)
\* extract_childless_elements('ActivitySummary', ...) has returned or raised
SummariesHandled ==
    /\ pc \in {"extract", "done", "aborted"}
    /\ "ActivitySummary" \in root.tags
    /\ "ActivitySummary" \notin elements_to_extract

\* the dateComponents of the rows of a table, in row order
SummaryDates(rows) == [k \in DOMAIN rows |-> rows[k].attrib.dateComponents]

\* the dateComponents >= date_start of a list of nodes, in list order
SummaryDatesFrom(date_start, list) ==
    LET Late(n) == n.attrib.dateComponents >= date_start
    IN  SummaryDates(SelectSeq(list, Late))

\* C17: once extract_childless_elements is over for ActivitySummary in append
\* mode, the table holds the rows it had plus the summaries of the export with
\* dateComponents >= append_from, and no dateComponents twice.
C17_AppendsSummariesFromDate ==
    (append_to_existing_db /\ SummariesHandled)
        => LET had == SummaryDates(OldDatabase(append_from[1]).ActivitySummary.rows)
               now == SummaryDates(db.ActivitySummary.rows)
           IN  /\ now = had \o SummaryDatesFrom(append_from[1], root.ActivitySummary)
               /\ \A j, k \in DOMAIN now : now[j] = now[k] => j = k

(***************************************************************************)
(* SpecChildless: calls of extract_childless_elements on a database that   *)
(* has the tables of an earlier run, or none.                              *)
(***************************************************************************)
\* the tags of the calls: the three that append mode knows, and one more
\* whose nodes have no children
ChildlessTags == {"ExportDate", "Me", "ActivitySummary", "ClinicalRecord"}

\* the ActivitySummary lists of the calls, by ascending dateComponents, from
\* the day before the export date of the earlier run
SummaryLists ==
    {LabelledList(a, "ActivitySummary") :
        a \in {l \in UNION {[1..n -> {ActivitySummary(d) : d \in 0..MaxDate}] : n \in 1..MaxNodes} :
                  StrictlyAscending(l, "dateComponents")}}

\* extract_childless_elements(tag, start_from) is called on an object in
\* append mode (start_from is append_from) or not (start_from is "all")
CallChildless ==
    /\ pc = "new"
    /\ \E a \in BOOLEAN, tag \in ChildlessTags, l \in SummaryLists,
          d \in {EmptyDict, OldDatabase(1)} :
          /\ append_to_existing_db' = a
          /\ append_from' = IF a THEN <<1>> ELSE <<>>
          /\ root' = [tags |-> ChildlessTags, Workout |-> <<>>, Record |-> <<>>,
                      ActivitySummary |-> l]
          /\ exportdate' = MaxDate
          /\ db' = d
          /\ call' = <<[tag |-> tag]>>
    /\ db_name' = BaseName(DateStr(1), FALSE)
    /\ pc' = "childless_called"
    /\ UNCHANGED <<files, raised, append_ver, exclude, datestring, counter, chunk_size,
                   max_vars, elements_to_extract, loop_vars, num_nodes_by_elem,
                   table_error_count, sql_log, print_error_msgs, csv_files>>

\* lines 516-581: the call returns or raises
ReturnChildless ==
    /\ pc = "childless_called"
    /\ Commit(extract_childless_elements(Store, call[1].tag, append_from))
    /\ pc' = "childless_returned"
    /\ UNCHANGED <<ctor_vars, elements_to_extract, node_list, i, print_error_msgs, call,
                   csv_files>>

InitChildless == Idle /\ files = {}

NextChildless ==
    \/ CallChildless
    \/ ReturnChildless

SpecChildless == InitChildless /\ [][NextChildless]_vars

\* table t of the database is the same before and after the step
SameTable(t) == (t \in DOMAIN db') = (t \in DOMAIN db) /\ (t \in DOMAIN db => db'[t] = db[t])

\* C18: a call of extract_childless_elements not in append mode writes with
\* if_exists='fail': a table that exists is left as it is and ValueError is
\* raised; in append mode the rows of Me are replaced by those of the export,
\* ExportDate and ActivitySummary keep their rows and get rows after them, and
\* any other tag raises ValueError with no write made; no other table changes.
C18_WritePolicy ==
    [][ pc = "childless_called" =>
          LET tag == call[1].tag
              all == DataFrame(Attribs(findall(root, exportdate, tag)))
          IN  /\ \A t \in (DOMAIN db \cup DOMAIN db') \ {tag} : SameTable(t)
              /\ (~append_to_existing_db /\ tag \in DOMAIN db)
                    => /\ SameTable(tag)
                       /\ raised' = "ValueError: table exists"
              /\ (~append_to_existing_db /\ tag \notin DOMAIN db)
                    => /\ tag \in DOMAIN db'
                       /\ db'[tag].rows = all
                       /\ raised' = "none"
              /\ (append_to_existing_db /\ tag = "Me")
                    => /\ tag \in DOMAIN db'
                       /\ db'[tag].rows = all
                       /\ raised' = "none"
              /\ (append_to_existing_db /\ tag \in {"ExportDate", "ActivitySummary"})
                    => IF tag \in DOMAIN db /\ NewCalls # <<>>
                       THEN /\ Len(db'[tag].rows) > Len(db[tag].rows)
                            /\ SubSeq(db'[tag].rows, 1, Len(db[tag].rows)) = db[tag].rows
                            /\ \A k \in (Len(db[tag].rows) + 1)..Len(db'[tag].rows) :
                                  \E n \in DOMAIN all : db'[tag].rows[k].attrib = all[n].attrib
                       ELSE SameTable(tag)
              /\ (append_to_existing_db /\ tag \notin {"Me", "ExportDate", "ActivitySummary"})
                    => /\ raised' = "ValueError"
                       /\ NewCalls = <<>>
                       /\ SameTable(tag) ]_vars

\* an append run has put a summary after the row that the table had
C18_Witness ==
    /\ pc = "childless_returned"
    /\ append_to_existing_db
    /\ call[1].tag = "ActivitySummary"
    /\ raised = "none"
    /\ "ActivitySummary" \in DOMAIN db
    /\ Len(db.ActivitySummary.rows) = 2
    /\ db.ActivitySummary.rows[2].attrib.dateComponents = MaxDate

(***************************************************************************)
(* SpecWorkout: get_subtree and the loop body of extract_workout_elements  *)
(* on one Workout node with children and WorkoutRoute grandchildren.       *)
(***************************************************************************)
MaxChildren == 2    \* children of one Workout, and of one WorkoutRoute

\* the WorkoutRoute nodes of the model
RouteShapes ==
    {WorkoutRoute(kids) :
        kids \in SeqsUpTo({MetadataEntry("HKMetadataKeySyncVersion"), FileReference}, MaxChildren)}

\* the Workout nodes of the model
WorkoutTrees ==
    {Labelled(Workout("HKWorkoutActivityTypeRunning", 1, kids), <<"Workout", 1>>) :
        kids \in SeqsUpTo({MetadataEntry("HKTimeZone"), MetadataEntry("HKMetadataKeySyncVersion"),
                           WorkoutEvent} \cup RouteShapes, MaxChildren)}

\* line 311: get_subtree(node) is called
CallSubtree ==
    /\ pc = "new"
    /\ \E node \in WorkoutTrees : call' = <<[node |-> node, yielded |-> <<>>]>>
    /\ pc' = "subtree_called"
    /\ UNCHANGED <<files, raised, ctor_vars, elements_to_extract, loop_vars, store_vars,
                   print_error_msgs, csv_files>>

\* lines 210-215: the generator is exhausted
ReturnSubtree ==
    /\ pc = "subtree_called"
    /\ call' = <<[call[1] EXCEPT !.yielded = get_subtree(call[1].node)]>>
    /\ pc' = "subtree_returned"
    /\ UNCHANGED <<files, raised, ctor_vars, elements_to_extract, loop_vars, store_vars,
                   print_error_msgs, csv_files>>

\* line 277: the loop of extract_workout_elements takes a node
CallWorkoutIteration ==
    /\ pc = "new"
    /\ \E node \in WorkoutTrees : call' = <<[node |-> node]>>
    /\ pc' = "workout_taken"
    /\ UNCHANGED <<files, raised, ctor_vars, elements_to_extract, loop_vars, store_vars,
                   print_error_msgs, csv_files>>

\* lines 277-375: the body of the loop for that node
ReturnWorkoutIteration ==
    /\ pc = "workout_taken"
    /\ Commit(WorkoutIteration(Store, call[1].node, 1))
    /\ pc' = "workout_queued"
    /\ UNCHANGED <<ctor_vars, elements_to_extract, node_list, i, print_error_msgs, call,
                   csv_files>>

InitWorkout == Idle /\ files = {}

NextWorkout ==
    \/ CallSubtree
    \/ ReturnSubtree
    \/ CallWorkoutIteration
    \/ ReturnWorkoutIteration

SpecWorkout == InitWorkout /\ [][NextWorkout]_vars

RECURSIVE NodeCount(_)
\* the number of nodes of the subtree rooted at node
NodeCount(node) ==
    1 + Len(Flatten([k \in DOMAIN node.children |-> [n \in 1..NodeCount(node.children[k]) |-> n]]))

\* path p is that of a proper descendant of the node with path q
Below(p, q) == Len(p) > Len(q) /\ SubSeq(p, 1, Len(q)) = q

\* C19: get_subtree(node) yields every node of the subtree once, the argument
\* last, and each node right after the block of all its descendants, its
\* children in document order; so the children of a WorkoutRoute come
\* immediately before it.
C19_PostOrder ==
    pc = "subtree_returned" =>
        LET y == call[1].yielded
            node == call[1].node
        IN  /\ Len(y) = NodeCount(node)
            /\ \A j, k \in DOMAIN y : y[j].attrib.id = y[k].attrib.id => j = k
            /\ \A k \in DOMAIN y : y[k].attrib.id = node.attrib.id \/ Below(y[k].attrib.id, node.attrib.id)
            /\ y[Len(y)] = node
            /\ \A p \in DOMAIN y :
                  LET s == NodeCount(y[p])
                  IN  /\ p - s >= 0
                      /\ \A k \in DOMAIN y :
                            Below(y[k].attrib.id, y[p].attrib.id) <=> (k >= p - s + 1 /\ k <= p - 1)
            /\ \A p \in DOMAIN y :
                  y[p].tag = "WorkoutRoute"
                      => SubSeq(y, p - Len(y[p].children), p - 1) = y[p].children

\* a Workout with a child before a WorkoutRoute that has two children
C19_Witness ==
    /\ pc = "subtree_returned"
    /\ Len(call[1].yielded) = 5
    /\ call[1].yielded[4].tag = "WorkoutRoute"
    /\ call[1].yielded[1].tag = "MetadataEntry"
    /\ call[1].yielded[3].tag = "FileReference"


RECURSIVE Updated(_, _)
\* the dict after update() with each dict of the list in turn
Updated(dict, items) ==
    IF items = <<>> THEN dict ELSE Updated(Merge(dict, Head(items)), Tail(items))

\* what a child hands to the row of its parent: a MetadataEntry its key and
\* value, a FileReference its path, a WorkoutEvent or WorkoutRoute a flag
ItemsOf(child) ==
    IF child.tag = "MetadataEntry" THEN (child.attrib.key :> child.attrib.value)
    ELSE IF child.tag = "FileReference" THEN ("filePath" :> child.attrib.path)
    ELSE (child.tag :> TRUE)

\* the row of a node with what each of its children hands to it
RowWithChildren(attrib, node) ==
    Updated(attrib, [k \in DOMAIN node.children |-> ItemsOf(node.children[k])])

\* the WorkoutRoute children of a Workout node, in document order
RoutesOf(node) ==
    LET IsRoute(child) == child.tag = "WorkoutRoute"
    IN  SelectSeq(node.children, IsRoute)

\* C20: after the loop body for a Workout node, the row of the Workout has the
\* key and value of each MetadataEntry that is its direct child, and the row of
\* each WorkoutRoute has the items of its own children and of no other node.
C20_MetadataToOwnRow ==
    pc = "workout_queued" =>
        LET node == call[1].node
            nodetype == WorkoutNodeType(node)
            index == [workoutType |-> nodetype, workoutIndex |-> 0]
            routes == RoutesOf(node)
        IN  /\ raised = "none"
            /\ QRows(table_queue, nodetype) = <<RowWithChildren(node.attrib, node)>>
            /\ routes # <<>> =>
                  QRows(table_queue, "WorkoutRoute")
                      = [k \in DOMAIN routes |->
                            RowWithChildren(Merge(routes[k].attrib, index), routes[k])]

(***************************************************************************)
(* The link from a child row to the row of its parent (Spec, SpecAppend).  *)
(***************************************************************************)
\* the tables of child rows, with the columns that name the parent table and
\* the index of the parent row
ChildTables ==
    [WorkoutEvent |-> [type |-> "workoutType", index |-> "workoutIndex"],
     WorkoutRoute |-> [type |-> "workoutType", index |-> "workoutIndex"],
     InstantaneousBeatsPerMinute |-> [type |-> "recordType", index |-> "recordIndex"]]

\* the rows of table t whose index column is n
RowsAtIndex(d, t, n) == IF t \in DOMAIN d THEN {k \in DOMAIN d[t].rows : d[t].rows[k].index = n} ELSE {}

\* the id of the top-level node above the node with this id
TopLevelId(id) == SubSeq(id, 1, 2)

\* C21: when a run is over, each row of WorkoutEvent, WorkoutRoute and
\* InstantaneousBeatsPerMinute names exactly one row of the table of its
\* workoutType (recordType) by its workoutIndex (recordIndex), and that row is
\* the row of the Workout (Record) above it.
C21_ChildIndexNamesParent ==
    RunOver =>
        \A t \in DOMAIN ChildTables \cap DOMAIN db :
            \A k \in DOMAIN db[t].rows :
                LET child == db[t].rows[k].attrib
                    parents == RowsAtIndex(db, child[ChildTables[t].type], child[ChildTables[t].index])
                IN  /\ Cardinality(parents) = 1
                    /\ \A p \in parents :
                          db[child[ChildTables[t].type]].rows[p].attrib.id = TopLevelId(child.id)

(***************************************************************************)
(* Writes that SQLite refuses with 'too many SQL variables' (Spec).        *)
(***************************************************************************)
\* what a call of dataframe_to_sql can leave raised
WriteErrors == {"ValueError: table exists", "AssertionError", "OperationalError"}

\* C22: a call of dataframe_to_sql whose write meets 'too many SQL variables'
\* does not raise; table_error_count of the table grows by one for it; none
\* of the rows of its DataFrame is in the table afterwards, while
\* num_nodes_by_elem has counted them; and the step goes on as after a write.
C22_SwallowedWriteError ==
    [][ \A j \in DOMAIN NewCalls :
           NewCalls[j].err = "too many SQL variables"
               => LET t == NewCalls[j].table
                  IN  /\ raised' \in WriteErrors => j < Len(NewCalls)
                      /\ ErrorCount(table_error_count', t)
                             = ErrorCount(table_error_count, t)
                                   + Cardinality({k \in DOMAIN NewCalls :
                                                     NewCalls[k].table = t /\ NewCalls[k].err # "none"})
                      /\ TableIds(db', t) = TableIds(db, t) \o WrittenIds(NewCalls, t)
                      /\ \A r \in DOMAIN TableIds(db', t), n \in DOMAIN NewCalls[j].ids :
                            TableIds(db', t)[r] # NewCalls[j].ids[n]
                      /\ NewCalls[j].ids # <<>>
                      /\ t \in DOMAIN num_nodes_by_elem'
                      /\ Len(TableIds(db', t)) + Len(NewCalls[j].ids) <= num_nodes_by_elem'[t]
      ]_vars

\* a run that went on to its end after a refused write: the table is there,
\* with fewer rows than the counter says
C22_Witness ==
    /\ pc = "checked"
    /\ raised = "none"
    /\ \E j \in DOMAIN sql_log :
          /\ sql_log[j].err = "too many SQL variables"
          /\ sql_log[j].table \in DOMAIN db
          /\ Len(db[sql_log[j].table].rows) < num_nodes_by_elem[sql_log[j].table]

(***************************************************************************)
(* What the database holds when a run aborts (Spec).                       *)
(***************************************************************************)
\* the j-th of the calls has put its rows into the table: at once, or by
\* add_newcols_to_table, which the last call of a step that raises has not
Completed(calls, j, exception) ==
    \/ calls[j].err = "none"
    \/ /\ calls[j].err = "has no column"
       /\ j < Len(calls) \/ exception \notin WriteErrors

RECURSIVE CompletedIds(_, _, _, _)
\* the row ids that the calls from the j-th on have put into table t
CompletedIds(calls, j, t, exception) ==
    IF j > Len(calls) THEN <<>>
    ELSE (IF calls[j].table = t /\ Completed(calls, j, exception) THEN calls[j].ids ELSE <<>>)
             \o CompletedIds(calls, j + 1, t, exception)

\* no row still held in table_queue is in the table of its key
QueuedNotStored(q, d) ==
    \A k \in DOMAIN q : \A r \in DOMAIN q[k].rows :
        \A n \in DOMAIN TableIds(d, q[k].key) : TableIds(d, q[k].key)[n] # q[k].rows[r].id

\* C23: no step removes a row or a table; the step in which a run aborts adds
\* to each table the rows of the writes it completed before the exception and
\* nothing else, and leaves no row of table_queue in the database.
C23_AbortKeepsFlushedRows ==
    [][ /\ \A t \in DOMAIN db :
              /\ t \in DOMAIN db'
              /\ SubSeq(db'[t].rows, 1, Len(db[t].rows)) = db[t].rows
        /\ (pc # "aborted" /\ pc' = "aborted")
              => /\ raised' # "none"
                 /\ \A t \in DOMAIN db' \cup {NewCalls[j].table : j \in DOMAIN NewCalls} :
                       TableIds(db', t) = TableIds(db, t) \o CompletedIds(NewCalls, 1, t, raised')
                 /\ QueuedNotStored(table_queue', db')
      ]_vars

\* a run has aborted after a flush: a table has a row, and table_queue holds
\* a row that is in no table
C23_Witness ==
    /\ pc = "aborted"
    /\ \E t \in DOMAIN db \ {"ExportDate", "Me", "ActivitySummary"} : Len(db[t].rows) >= 1
    /\ \E k \in DOMAIN table_queue : table_queue[k].rows # <<>>

====
